---- MODULE Spec2Model ----
(***************************************************************************)
(* Model of bevy_tile_map: the TileMap grid store (src/src/tile_map.rs),  *)
(* the chunk cache with its reconciliation system (src/src/chunk.rs), the  *)
(* TileSheet atlas packer (src/src/render/tile_sheet.rs) and the chunk     *)
(* extraction (src/src/render/mod.rs).                                     *)
(*                                                                         *)
(* Spec runs the tile map and the reconciliation, SpecSheet the tile       *)
(* sheet against an image store, SpecExtract single calls of               *)
(* extract_tile_images, SpecRender writes, reconciliation and extraction.  *)
(*                                                                         *)
(* A coordinate is a record [x, y, z]; a Tile is abstracted to a natural   *)
(* number, 0 being Tile::default().  A layer is a sequence of tiles        *)
(* (1-based here, 0-based in the source), TileMap.tiles a sequence of      *)
(* layers.  A reference returned by an accessor is modelled by the         *)
(* location it points at: <<"Some", layer, index>> (both 0-based).         *)
(***************************************************************************)
EXTENDS Integers, Sequences, FiniteSets, TLC

\* ---------------------------------------------------------------- bounds
MaxW == 2          \* largest map width tried by TileMap::new
MaxH == 2          \* largest map height tried by TileMap::new
MaxCS == 2         \* largest chunk dimension tried (0 is tried too)
MaxLayers == 2     \* add_empty_layer / add_layer stop at this many layers
MaxTile == 1       \* tile values 0 (default) .. MaxTile
MaxSteps == 2      \* number of TileMap calls per run
Over == 1          \* accessors are tried up to Over past width on x
MaxDespawns == 1   \* chunk entities the host despawns per run
MaxHandle == 1     \* image handles 0 .. MaxHandle
MaxInputLen == 3   \* longest handle list handed to TileSheet::new
MaxImgW == 3       \* widest image of the image store, in pixels
MaxImgH == 3       \* tallest image of the image store
MaxLoads == 2      \* images loaded or replaced in the store per run
MaxUpdates == 2    \* update_images calls per run
MaxPackW == 4      \* widest image handed to extract_tile_images directly
MaxPackH == 4      \* tallest image handed to extract_tile_images directly
MaxTileW == 2      \* widest tile handed to extract_tile_images directly
MaxTileH == 2      \* tallest tile handed to extract_tile_images directly
MaxHidden == 1     \* chunk entities that are invisible at a time
MaxChunks == 3     \* chunk entities of the query that prepare_tiles sees
MaxDepth == 1      \* world depths 0 .. MaxDepth of the extracted chunks
MaxFrames == 2     \* frames (extract, prepare) per run
MaxHits == 2       \* intersections of the ray in one tick
MaxAsEntities == 2 \* entities with an AsTiles component
MaxKind == 2       \* tile kinds 1..MaxKind of an AsTiles footprint
MaxQueued == 2     \* chunks that queue_chunks sees in one frame

VARIABLES pc, build, size, chunk_size, tile_size, tiles, dirty_chunks,
          chunk_entities, chunk_data, chunk_transform, steps, last

\* the TileSheet asset (src/src/render/tile_sheet.rs), the image store it
\* packs from and the call bookkeeping
VARIABLES sheet_pc, tile_sets, sheet_tile_size, tile_data, images, loads,
          updates, sheet_last

\* one call of TileSheet::extract_tile_images: its arguments and its output
VARIABLES ex_pc, ex_img, ex_tile_size, ex_dest

\* extraction into the render world (src/src/render/mod.rs): the chunk
\* entities whose ComputedVisibility is off, the ExtractedChunks resource
\* and the name of the last render-side step
VARIABLES hidden, extracted_chunks, render_last

\* prepare_tiles (src/src/render/mod.rs): the TileUniform buffers by chunk
\* index, where the frame stands and the number of frames so far
VARIABLES tile_uniforms, prep_pc, frames

\* queue_interaction_events (src/src/interaction.rs): its Local
\* last_selected, the inputs of the last tick (tick_in), what the tick
\* picked (new_selected), the events it sent in order (events), and the
\* selection the event stream has entered and not exited (entered)
VARIABLES last_selected, tick_in, new_selected, events, entered

\* one tick of the app schedule (src/src/lib.rs): the systems of the
\* Update stage that have run in this tick and what the game system wrote
VARIABLES tick_ran, tick_written

\* sync_as_tiles (src/src/tile_map.rs): the AsTiles component of each
\* entity that has one, and the system's Local sync_cache
VARIABLES as_tiles, sync_cache

\* queue_chunks and DrawChunkCommand (src/src/render/mod.rs): the shared
\* index buffers by chunk size (of each buffer its length and the entries
\* of the last tile pushed; the buffer is never written again, so the
\* rest of it is new_index_buffer of the chunk size), the chunk sizes of
\* the items queued for the frame in order, and the last draw call
VARIABLES index_buffers, phase_items, drawn

\* the tile map, its chunk records and the call bookkeeping
mapVars == <<pc, build, size, chunk_size, tile_size, tiles, dirty_chunks,
             chunk_entities, chunk_data, chunk_transform, steps, last>>

sheetVars == <<sheet_pc, tile_sets, sheet_tile_size, tile_data, images, loads,
               updates, sheet_last>>

exVars == <<ex_pc, ex_img, ex_tile_size, ex_dest>>

renderVars == <<hidden, extracted_chunks, render_last>>

prepVars == <<tile_uniforms, prep_pc, frames>>

interVars == <<last_selected, tick_in, new_selected, events, entered>>

tickVars == <<tick_ran, tick_written>>

asVars == <<as_tiles, sync_cache>>

queueVars == <<index_buffers, phase_items, drawn>>

vars == <<mapVars, sheetVars, exVars, renderVars, prepVars, interVars, tickVars,
          asVars, queueVars>>

\* ------------------------------------------------------------- data types
DefaultTile == 0
NoneCell == -1
Builds == {"debug", "release"}

Coord(x, y, z) == [x |-> x, y |-> y, z |-> z]
NoCoord == Coord(0, 0, 0)

Min(a, b) == IF a < b THEN a ELSE b

Replicate(n, v) == [i \in 1..n |-> v]

NoRet == <<"Unit">>
NoneRet == <<"None">>
PanicRet == <<"Panic">>
SomeRet(z, idx) == <<"Some", z, idx>>

\* the last call: its name, its arguments (coord, val; cs is the chunk_size
\* handed to new) and its result (ret; created and synced are the chunk
\* coordinates a reconciliation made a record for / re-synced)
Last(op, coord, val, ret, created, synced) ==
    [op |-> op, coord |-> coord, val |-> val, cs |-> [x |-> 0, y |-> 0],
     ret |-> ret, created |-> created, synced |-> synced]

\* ------------------------------------------------- TileMap pure functions
coord_to_tile_idx(c) == c.y * size.x + c.x

coord_to_chunk_coord(c) ==
    Coord(c.x \div chunk_size.x, c.y \div chunk_size.y, c.z)

\* faulty variant: the layer vector is indexed directly instead of with Vec::get
get_index_layer(c) ==
    LET index == coord_to_tile_idx(c) IN
    IF c.z < Len(tiles)
    THEN IF index < Len(tiles[c.z + 1]) THEN SomeRet(c.z, index) ELSE NoneRet
    ELSE PanicRet

\* Vec::get on the layer vector, then on the layer
get(c) ==
    LET index == coord_to_tile_idx(c) IN
    IF c.z < Len(tiles)
    THEN IF index < Len(tiles[c.z + 1]) THEN SomeRet(c.z, index) ELSE NoneRet
    ELSE NoneRet

\* get_mut after its mark_chunk_dirty: the same lookup as get
get_mut(c) ==
    LET index == coord_to_tile_idx(c) IN
    IF c.z < Len(tiles)
    THEN IF index < Len(tiles[c.z + 1]) THEN SomeRet(c.z, index) ELSE NoneRet
    ELSE NoneRet

\* self.tiles[z][index]: panics when either index is out of range
index(c) ==
    LET idx == coord_to_tile_idx(c) IN
    IF c.z < Len(tiles) /\ idx < Len(tiles[c.z + 1])
    THEN SomeRet(c.z, idx) ELSE PanicRet

index_mut(c) ==
    LET idx == coord_to_tile_idx(c) IN
    IF c.z < Len(tiles) /\ idx < Len(tiles[c.z + 1])
    THEN SomeRet(c.z, idx) ELSE PanicRet

\* chunks(): x outermost, then y, then z, each from 0 below max
chunks(sz) ==
    LET max == coord_to_chunk_coord(sz)
        n == max.x * max.y * max.z
    IN [i \in 1..n |->
          Coord((i - 1) \div (max.y * max.z),
                ((i - 1) \div max.z) % max.y,
                (i - 1) % max.z)]

Range(s) == {s[i] : i \in DOMAIN s}

\* faulty variant: the tile coordinate is inserted, not its chunk coordinate
mark_chunk_dirty_tile_coord(d, c) == d \cup {c}

mark_chunk_dirty(d, c) == d \cup {coord_to_chunk_coord(c)}

\* extend() of the set by the chunks() of the (already updated) size
\* faulty variant: the dirty set is replaced by the chunks of the map
mark_all_chunks_dirty_replaces(d, sz) == Range(chunks(sz))

mark_all_chunks_dirty(d, sz) == d \cup Range(chunks(sz))

\* ------------------------------------------------------ images, handles
\* A Handle<Image> is abstracted to its rank in the handle order.
Handles == 0..MaxHandle

\* TextureFormat::pixel_size(): bytes per pixel of the two formats tried
Formats == {"R8Unorm", "Rg8Unorm"}
pixel_size(format) == IF format = "R8Unorm" THEN 1 ELSE 2

\* An image of the store: its descriptor and its bytes.  A byte is
\* abstracted to the label <<handle, offset>> of where it comes from.
Image(h, w, ht, format) ==
    [handle |-> h, width |-> w, height |-> ht, format |-> format,
     data |-> [i \in 1..(w * ht * pixel_size(format)) |-> <<h, i - 1>>]]

\* Assets::get(handle) = None
NoImage ==
    [handle |-> -1, width |-> 0, height |-> 0, format |-> "none", data |-> <<>>]

SheetLast(op, input, updated, result, texture) ==
    [op |-> op, input |-> input, updated |-> updated, result |-> result,
     texture |-> texture]

NoTexture == [width |-> 0, height |-> 0, depth_or_array_layers |-> 0,
              format |-> "none", data |-> <<>>]

\* no TileSheet has been made and the image store is empty
SheetIdle ==
    /\ sheet_pc = "start"
    /\ tile_sets = <<>>
    /\ sheet_tile_size = [x |-> 0, y |-> 0]
    /\ tile_data = <<>>
    /\ images = [h \in Handles |-> NoImage]
    /\ loads = 0
    /\ updates = 0
    /\ sheet_last = SheetLast("init", <<>>, {}, "none", NoTexture)

\* no extract_tile_images call is under way
ExIdle ==
    /\ ex_pc = "idle"
    /\ ex_img = NoImage
    /\ ex_tile_size = [x |-> 0, y |-> 0]
    /\ ex_dest = <<>>

\* nothing is hidden and nothing has been extracted
RenderIdle ==
    /\ hidden = {}
    /\ extracted_chunks = <<>>
    /\ render_last = "init"

\* no frame has been prepared
PrepIdle ==
    /\ tile_uniforms = <<>>
    /\ prep_pc = "start"
    /\ frames = 0

NoSelection == <<"None">>

NoTickIn == [source |-> "none", p |-> <<0, 0>>, hits |-> <<>>,
             just_pressed |-> FALSE]

\* queue_interaction_events has not run
InterIdle ==
    /\ last_selected = NoSelection
    /\ tick_in = NoTickIn
    /\ new_selected = NoSelection
    /\ events = <<>>
    /\ entered = NoSelection

\* no system has run in the tick
TickIdle ==
    /\ tick_ran = {}
    /\ tick_written = <<>>

\* no entity has an AsTiles component and sync_as_tiles has not run
AsIdle ==
    /\ as_tiles = <<>>
    /\ sync_cache = <<>>

\* no index buffer has been built and nothing is queued or drawn
QueueIdle ==
    /\ index_buffers = <<>>
    /\ phase_items = <<>>
    /\ drawn = <<>>

\* the tile map has not been constructed
MapIdle ==
    /\ pc = "start"
    /\ build \in Builds
    /\ size = Coord(0, 0, 0)
    /\ chunk_size = [x |-> 0, y |-> 0]
    /\ tile_size = [x |-> 0, y |-> 0]
    /\ tiles = <<>>
    /\ dirty_chunks = {}
    /\ chunk_entities = <<>>
    /\ chunk_data = <<>>
    /\ chunk_transform = <<>>
    /\ steps = 0
    /\ last = Last("init", NoCoord, 0, NoRet, {}, {})

\* ---------------------------------------------------------------- Init
Init ==
    /\ MapIdle
    /\ SheetIdle
    /\ ExIdle
    /\ RenderIdle
    /\ PrepIdle
    /\ InterIdle
    /\ TickIdle
    /\ AsIdle
    /\ QueueIdle

\* -------------------------------------------------------- TileMap::new
\* faulty variant: only chunk_size.x is asserted
new_asserts_x_only(cw, ch) == cw >= 1

\* assert!(chunk_size.x >= 1 && chunk_size.y >= 1)
new_asserts(cw, ch) == cw >= 1 /\ ch >= 1

new_tiles(w, h) == <<Replicate(w * h, DefaultTile)>>

New(w, h, cw, ch, ts) ==
    /\ pc = "start"
    /\ IF new_asserts(cw, ch)
       THEN /\ pc' = "ready"
            /\ tiles' = new_tiles(w, h)
            /\ size' = Coord(w, h, 1)
            /\ chunk_size' = [x |-> cw, y |-> ch]
            /\ tile_size' = ts
            /\ dirty_chunks' = {}
            /\ last' = [Last("new", Coord(w, h, 0), 0, NoRet, {}, {})
                           EXCEPT !.cs = [x |-> cw, y |-> ch]]
       ELSE /\ pc' = "panicked"
            /\ last' = [Last("new", Coord(w, h, 0), 0, PanicRet, {}, {})
                           EXCEPT !.cs = [x |-> cw, y |-> ch]]
            /\ UNCHANGED <<tiles, size, chunk_size, tile_size, dirty_chunks>>
    /\ UNCHANGED <<build, chunk_entities, chunk_data, chunk_transform, steps>>

\* -------------------------------------------------------- TileMap::get
Get(c) ==
    /\ pc = "ready"
    /\ steps < MaxSteps
    /\ steps' = steps + 1
    /\ last' = Last("get", c, 0, get(c), {}, {})
    /\ UNCHANGED <<pc, build, size, chunk_size, tile_size, tiles,
                   dirty_chunks, chunk_entities, chunk_data, chunk_transform>>

\* Index<UVec3>::index (the tuple and array forms delegate to it)
Index(c) ==
    /\ pc = "ready"
    /\ steps < MaxSteps
    /\ steps' = steps + 1
    /\ last' = Last("index", c, 0, index(c), {}, {})
    /\ pc' = IF index(c) = PanicRet THEN "panicked" ELSE pc
    /\ UNCHANGED <<build, size, chunk_size, tile_size, tiles, dirty_chunks,
                   chunk_entities, chunk_data, chunk_transform>>

\* the caller's store through a returned &mut Tile
WriteThrough(ts, r, v) ==
    IF r[1] = "Some"
    THEN [ts EXCEPT ![r[2] + 1][r[3] + 1] = v]
    ELSE ts

\* TileMap::get_mut followed by the caller writing v through the result
GetMut(c, v) ==
    /\ pc = "ready"
    /\ steps < MaxSteps
    /\ steps' = steps + 1
    /\ dirty_chunks' = mark_chunk_dirty(dirty_chunks, c)
    /\ tiles' = WriteThrough(tiles, get_mut(c), v)
    /\ last' = Last("get_mut", c, v, get_mut(c), {}, {})
    /\ UNCHANGED <<pc, build, size, chunk_size, tile_size, chunk_entities,
                   chunk_data, chunk_transform>>

\* IndexMut<UVec3>::index_mut followed by the caller's assignment of v
IndexMut(c, v) ==
    /\ pc = "ready"
    /\ steps < MaxSteps
    /\ steps' = steps + 1
    /\ dirty_chunks' = mark_chunk_dirty(dirty_chunks, c)
    /\ tiles' = WriteThrough(tiles, index_mut(c), v)
    /\ last' = Last("index_mut", c, v, index_mut(c), {}, {})
    /\ pc' = IF index_mut(c) = PanicRet THEN "panicked" ELSE pc
    /\ UNCHANGED <<build, size, chunk_size, tile_size, chunk_entities,
                   chunk_data, chunk_transform>>

\* ------------------------------------------- add_empty_layer / add_layer
add_layer_tiles(ts, layer) == Append(ts, layer)

\* faulty variant: the new layer is allocated with width*width cells
empty_layer_square == Replicate(size.x * size.x, DefaultTile)

empty_layer == Replicate(size.x * size.y, DefaultTile)

AddEmptyLayer ==
    /\ pc = "ready"
    /\ steps < MaxSteps
    /\ size.z < MaxLayers
    /\ steps' = steps + 1
    /\ size' = [size EXCEPT !.z = size.z + 1]
    /\ dirty_chunks' = mark_all_chunks_dirty(dirty_chunks, size')
    /\ tiles' = add_layer_tiles(tiles, empty_layer)
    /\ last' = Last("add_empty_layer", NoCoord, 0, <<"Val", Len(tiles') - 1>>, {}, {})
    /\ UNCHANGED <<pc, build, chunk_size, tile_size, chunk_entities,
                   chunk_data, chunk_transform>>

AddLayer(layer) ==
    /\ pc = "ready"
    /\ steps < MaxSteps
    /\ size.z < MaxLayers
    /\ steps' = steps + 1
    /\ size' = [size EXCEPT !.z = size.z + 1]
    /\ dirty_chunks' = mark_all_chunks_dirty(dirty_chunks, size')
    /\ tiles' = add_layer_tiles(tiles, layer)
    /\ last' = Last("add_layer", NoCoord, 0, <<"Val", Len(tiles') - 1>>, {}, {})
    /\ UNCHANGED <<pc, build, chunk_size, tile_size, chunk_entities,
                   chunk_data, chunk_transform>>

\* ------------------------------------------------------------ ChunkData
\* copy_width of copy_tiles.  tile_map_size.x - start_tile_coord.x is a
\* u32 subtraction: when start_x exceeds the width it panics in a debug
\* build and wraps in a release build to 2^32 - (start_x - width), which
\* is above every chunk_size.x of the model, so min() yields chunk_size.x.
\* faulty variant: a full chunk row is copied whatever is left of the map
copy_width_full_row(cc, cs, ms) == cs.x

copy_width(cc, cs, ms) ==
    LET start_x == cc.x * cs.x IN
    IF start_x <= ms.x THEN Min(ms.x - start_x, cs.x) ELSE cs.x

copy_underflows(cc, cs, ms) == cc.x * cs.x > ms.x

\* row y of the loop of copy_tiles: is it copied, and from/to where
row_in_map(cc, cs, ms, y) == cc.y * cs.y + y < ms.y
dest_start(cs, y) == y * cs.x
src_start(cc, cs, ms, y) == (cc.y * cs.y + y) * ms.x + cc.x * cs.x

\* dest[dest_start..dest_end].copy_from_slice(&src[src_start..src_end])
copy_row(dest, src, cc, cs, ms, y) ==
    LET w == copy_width(cc, cs, ms)
        ds == dest_start(cs, y)
        ss == src_start(cc, cs, ms, y)
    IN [i \in 1..Len(dest) |->
          IF ds < i /\ i <= ds + w THEN src[ss + (i - ds)] ELSE dest[i]]

RECURSIVE copy_rows(_, _, _, _, _, _)
copy_rows(dest, src, cc, cs, ms, y) ==
    IF y >= cs.y THEN dest
    ELSE IF row_in_map(cc, cs, ms, y)
         THEN copy_rows(copy_row(dest, src, cc, cs, ms, y), src, cc, cs, ms, y + 1)
         ELSE copy_rows(dest, src, cc, cs, ms, y + 1)

copy_tiles(dest, src, cc, cs, ms) == copy_rows(dest, src, cc, cs, ms, 0)

\* the subtraction overflow check (debug) and the slice range checks
copy_tiles_panics(dest, src, cc, cs, ms, bld) ==
    \/ bld = "debug" /\ copy_underflows(cc, cs, ms)
    \/ \E y \in 0..(cs.y - 1) :
          /\ row_in_map(cc, cs, ms, y)
          /\ \/ src_start(cc, cs, ms, y) + copy_width(cc, cs, ms) > Len(src)
             \/ dest_start(cs, y) + copy_width(cc, cs, ms) > Len(dest)

ChunkData_new(cc) ==
    [tiles |-> copy_tiles(Replicate(chunk_size.x * chunk_size.y, NoneCell),
                          tiles[cc.z + 1], cc, chunk_size, size),
     chunk_coord |-> cc,
     chunk_size |-> chunk_size,
     tile_size |-> tile_size]

ChunkData_new_panics(cc) ==
    \/ cc.z >= Len(tiles)
    \/ copy_tiles_panics(Replicate(chunk_size.x * chunk_size.y, NoneCell),
                         tiles[cc.z + 1], cc, chunk_size, size, build)

ChunkData_sync(data) ==
    [data EXCEPT !.tile_size = tile_size,
                 !.tiles = copy_tiles(data.tiles, tiles[data.chunk_coord.z + 1],
                                      data.chunk_coord, chunk_size, size)]

ChunkData_sync_panics(data) ==
    \/ data.chunk_coord.z >= Len(tiles)
    \/ copy_tiles_panics(data.tiles, tiles[data.chunk_coord.z + 1],
                         data.chunk_coord, chunk_size, size, build)

\* ------------------------------------------- generate_or_update_chunks
\* Entity ids are opaque; a new record gets the next free ids, the drained
\* coordinates taken in the order of CoordKey.
CoordKey(c) == c.x * 10000 + c.y * 100 + c.z

NewEntity(c, fresh) ==
    Cardinality(DOMAIN chunk_entities)
      + Cardinality({d \in fresh : CoordKey(d) <= CoordKey(c)})

\* faulty variant: a coordinate whose record is missing is skipped
process_skips_missing(c) ==
    IF c \in DOMAIN chunk_entities
    THEN /\ chunk_entities[c] \in DOMAIN chunk_data
         /\ ChunkData_sync_panics(chunk_data[chunk_entities[c]])
    ELSE ChunkData_new_panics(c)

\* does the loop body panic on the drained coordinate c
process_panics(c) ==
    IF c \in DOMAIN chunk_entities
    THEN \/ chunk_entities[c] \notin DOMAIN chunk_data
         \/ ChunkData_sync_panics(chunk_data[chunk_entities[c]])
    ELSE ChunkData_new_panics(c)

\* faulty variant: a processed coordinate with a record gets a new entity
entities_after_respawns(P) ==
    [c \in DOMAIN chunk_entities \cup P |->
       IF c \in P THEN NewEntity(c, P) ELSE chunk_entities[c]]

\* the identity map and the record store after the coordinates P of the
\* drained set have been processed
entities_after(P) ==
    LET fresh == P \ DOMAIN chunk_entities IN
    [c \in DOMAIN chunk_entities \cup fresh |->
       IF c \in DOMAIN chunk_entities THEN chunk_entities[c]
       ELSE NewEntity(c, fresh)]

\* faulty variant: every existing record is synchronised, dirty or not
data_after_sync_all(P) ==
    LET fresh == P \ DOMAIN chunk_entities
        created == {NewEntity(c, fresh) : c \in fresh}
    IN [e \in DOMAIN chunk_data \cup created |->
          IF e \in DOMAIN chunk_data THEN ChunkData_sync(chunk_data[e])
          ELSE ChunkData_new(CHOOSE c \in fresh : NewEntity(c, fresh) = e)]

data_after(P) ==
    LET fresh == P \ DOMAIN chunk_entities
        synced == {chunk_entities[c] : c \in P \cap DOMAIN chunk_entities}
        created == {NewEntity(c, fresh) : c \in fresh}
    IN [e \in DOMAIN chunk_data \cup created |->
          IF e \in synced THEN ChunkData_sync(chunk_data[e])
          ELSE IF e \in DOMAIN chunk_data THEN chunk_data[e]
          ELSE ChunkData_new(CHOOSE c \in fresh : NewEntity(c, fresh) = e)]

\* faulty variant: the chunk coordinate is scaled by chunk_size only
chunk_translation_in_tiles(c) ==
    <<c.x * chunk_size.x, c.y * chunk_size.y, c.z * 1>>

\* Transform::from_translation(chunk_coord * screen_chunk_size.extend(1))
\* with screen_chunk_size = chunk_size * tile_size
chunk_translation(c) ==
    <<c.x * (chunk_size.x * tile_size.x), c.y * (chunk_size.y * tile_size.y),
      c.z * 1>>

from_translation(t) ==
    [translation |-> t, rotation |-> "IDENTITY", scale |-> <<1, 1, 1>>]

\* the transforms of the records: a new record is placed, a synced one
\* keeps its transform
transforms_after(P) ==
    LET fresh == P \ DOMAIN chunk_entities
        created == {NewEntity(c, fresh) : c \in fresh}
    IN [e \in DOMAIN chunk_transform \cup created |->
          IF e \in DOMAIN chunk_transform THEN chunk_transform[e]
          ELSE from_translation(
                 chunk_translation(CHOOSE c \in fresh : NewEntity(c, fresh) = e))]

\* faulty variant: the dirty set is iterated without being drained
drain_keeps(d) == d

\* dirty_chunks.drain(): the set is left empty
drain(d) == {}

Reconcile ==
    /\ pc = "ready"
    /\ IF dirty_chunks = {}
       THEN /\ last' = Last("reconcile", NoCoord, 0, NoRet, {}, {})
            /\ UNCHANGED <<pc, dirty_chunks, chunk_entities, chunk_data,
                           chunk_transform>>
       ELSE LET D == dirty_chunks
                bad == {c \in D : process_panics(c)}
            IN \/ /\ bad = {}
                  /\ chunk_entities' = entities_after(D)
                  /\ chunk_data' = data_after(D)
                  /\ chunk_transform' = transforms_after(D)
                  /\ dirty_chunks' = drain(dirty_chunks)
                  /\ last' = Last("reconcile", NoCoord, 0, NoRet,
                                  D \ DOMAIN chunk_entities,
                                  D \cap DOMAIN chunk_entities)
                  /\ pc' = pc
               \/ \E p \in bad : \E P \in SUBSET (D \ bad) :
                  \* the drain order is the hash set's: P was processed
                  \* before the loop reached p
                  /\ chunk_entities' = entities_after(P)
                  /\ chunk_data' = data_after(P)
                  /\ chunk_transform' = transforms_after(P)
                  /\ dirty_chunks' = drain(dirty_chunks)
                  /\ last' = Last("reconcile", p, 0, PanicRet,
                                  P \ DOMAIN chunk_entities,
                                  P \cap DOMAIN chunk_entities)
                  /\ pc' = "panicked"
    /\ UNCHANGED <<build, size, chunk_size, tile_size, tiles, steps>>

\* A chunk entity is despawned by the host (any system may despawn it):
\* its record leaves the store, the ChunkEntities entry stays.
Despawn(e) ==
    /\ pc = "ready"
    /\ e \in DOMAIN chunk_data
    /\ Cardinality(DOMAIN chunk_entities) - Cardinality(DOMAIN chunk_data)
         < MaxDespawns
    /\ chunk_data' = [d \in DOMAIN chunk_data \ {e} |-> chunk_data[d]]
    /\ chunk_transform' = [d \in DOMAIN chunk_transform \ {e} |-> chunk_transform[d]]
    /\ last' = Last("despawn", NoCoord, e, NoRet, {}, {})
    /\ UNCHANGED <<pc, build, size, chunk_size, tile_size, tiles,
                   dirty_chunks, chunk_entities, steps>>

\* ----------------------------------------------------------------- Next
Coords == {Coord(x, y, z) : x \in 0..(size.x + Over), y \in 0..size.y,
                            z \in 0..size.z}
Tiles == 0..MaxTile
\* layers handed to add_layer: width*height cells, at most one not default
Layers ==
    {[i \in 1..(size.x * size.y) |-> IF i = k THEN v ELSE DefaultTile] :
       k \in 0..(size.x * size.y), v \in Tiles}

\* the tile size handed to TileMap::new: one value, neither square nor 1
TileSizes == {[x |-> 2, y |-> 3]}

Next ==
    \/ /\ \E w \in 1..MaxW, h \in 1..MaxH, cw \in 0..MaxCS, ch \in 0..MaxCS,
             ts \in TileSizes : New(w, h, cw, ch, ts)
       /\ UNCHANGED <<sheetVars, exVars, renderVars, prepVars, interVars, tickVars, asVars,
                      queueVars>>
    \/ /\ \E c \in Coords : Get(c)
       /\ UNCHANGED <<sheetVars, exVars, renderVars, prepVars, interVars, tickVars, asVars,
                      queueVars>>
    \/ /\ \E c \in Coords : Index(c)
       /\ UNCHANGED <<sheetVars, exVars, renderVars, prepVars, interVars, tickVars, asVars,
                      queueVars>>
    \/ /\ \E c \in Coords, v \in Tiles : GetMut(c, v)
       /\ UNCHANGED <<sheetVars, exVars, renderVars, prepVars, interVars, tickVars, asVars,
                      queueVars>>
    \/ /\ \E c \in Coords, v \in Tiles : IndexMut(c, v)
       /\ UNCHANGED <<sheetVars, exVars, renderVars, prepVars, interVars, tickVars, asVars,
                      queueVars>>
    \/ /\ AddEmptyLayer
       /\ UNCHANGED <<sheetVars, exVars, renderVars, prepVars, interVars, tickVars, asVars,
                      queueVars>>
    \/ /\ \E layer \in Layers : AddLayer(layer)
       /\ UNCHANGED <<sheetVars, exVars, renderVars, prepVars, interVars, tickVars, asVars,
                      queueVars>>
    \/ /\ Reconcile
       /\ UNCHANGED <<sheetVars, exVars, renderVars, prepVars, interVars, tickVars, asVars,
                      queueVars>>
    \/ /\ \E e \in DOMAIN chunk_data : Despawn(e)
       /\ UNCHANGED <<sheetVars, exVars, renderVars, prepVars, interVars, tickVars, asVars,
                      queueVars>>

Spec == Init /\ [][Next]_vars

\* =================================================================
\* TileSheet (src/src/render/tile_sheet.rs)
\* =================================================================
\* ------------------------------------------------------ TileSheet::new
RECURSIVE insert_sorted(_, _)
insert_sorted(x, s) ==
    IF s = <<>> THEN <<x>>
    ELSE IF x <= Head(s) THEN <<x>> \o s
         ELSE <<Head(s)>> \o insert_sorted(x, Tail(s))

\* Vec::sort(): the elements in ascending order, repetitions kept
RECURSIVE sort(_)
sort(s) == IF s = <<>> THEN <<>> ELSE insert_sorted(Head(s), sort(Tail(s)))

\* Vec::dedup(): of each run of consecutive equal elements the first stays
RECURSIVE dedup(_)
dedup(s) ==
    IF Len(s) <= 1 THEN s
    ELSE IF s[1] = s[2] THEN dedup(Tail(s))
         ELSE <<s[1]>> \o dedup(Tail(s))

\* faulty variant: dedup() is called before sort()
new_tile_sets_dedup_first(input) == sort(dedup(input))

\* tile_sets.sort(); tile_sets.dedup();
new_tile_sets(input) == dedup(sort(input))

TileSheet_new(input, ts) ==
    /\ sheet_pc = "start"
    /\ sheet_pc' = "ready"
    /\ tile_sets' = new_tile_sets(input)
    /\ sheet_tile_size' = ts
    /\ tile_data' = <<>>
    /\ sheet_last' = SheetLast("new", input, {}, "none", NoTexture)
    /\ UNCHANGED <<images, loads, updates>>

\* -------------------------------------------- extract_tile_images
\* img[copy_start..copy_start + tile_size_in_pixels] of row y of a tile
tile_row(img, img_size, ts, ps, tile_y, tile_x, y) ==
    LET tile_size_in_pixels == ts.x * ps
        outer_row == tile_y * img_size.x * ps * ts.y
        inner_row == y * img_size.x * ps
        col_in_row == tile_size_in_pixels * tile_x
        copy_start == outer_row + inner_row + col_in_row
    IN SubSeq(img, copy_start + 1, copy_start + tile_size_in_pixels)

\* for y in (0..tile_size.y).rev(): the rows from y down to 0
RECURSIVE tile_rows_rev(_, _, _, _, _, _, _)
tile_rows_rev(img, img_size, ts, ps, tile_y, tile_x, y) ==
    IF y < 0 THEN <<>>
    ELSE tile_row(img, img_size, ts, ps, tile_y, tile_x, y)
           \o tile_rows_rev(img, img_size, ts, ps, tile_y, tile_x, y - 1)

\* for tile_x in 0..num_tiles.x, from tile_x on
RECURSIVE tiles_of_row(_, _, _, _, _, _)
tiles_of_row(img, img_size, ts, ps, tile_y, tile_x) ==
    IF tile_x >= img_size.x \div ts.x THEN <<>>
    ELSE tile_rows_rev(img, img_size, ts, ps, tile_y, tile_x, ts.y - 1)
           \o tiles_of_row(img, img_size, ts, ps, tile_y, tile_x + 1)

\* for tile_y in 0..num_tiles.y, from tile_y on
RECURSIVE tiles_from_row(_, _, _, _, _)
tiles_from_row(img, img_size, ts, ps, tile_y) ==
    IF tile_y >= img_size.y \div ts.y THEN <<>>
    ELSE tiles_of_row(img, img_size, ts, ps, tile_y, 0)
           \o tiles_from_row(img, img_size, ts, ps, tile_y + 1)

\* faulty variant: the rows of a tile are emitted top to bottom
RECURSIVE tile_rows_fwd(_, _, _, _, _, _, _)
tile_rows_fwd(img, img_size, ts, ps, tile_y, tile_x, y) ==
    IF y >= ts.y THEN <<>>
    ELSE tile_row(img, img_size, ts, ps, tile_y, tile_x, y)
           \o tile_rows_fwd(img, img_size, ts, ps, tile_y, tile_x, y + 1)

RECURSIVE extract_no_flip_from(_, _, _, _, _)
extract_no_flip_from(img, img_size, ts, ps, t) ==
    LET nx == img_size.x \div ts.x
        ny == img_size.y \div ts.y
    IN IF t >= nx * ny THEN <<>>
       ELSE tile_rows_fwd(img, img_size, ts, ps, t \div nx, t % nx, 0)
              \o extract_no_flip_from(img, img_size, ts, ps, t + 1)

extract_tile_images_no_flip(img, img_size, ts, format) ==
    extract_no_flip_from(img, img_size, ts, pixel_size(format), 0)

\* what extract_tile_images appends to an empty dest
extract_tile_images(img, img_size, ts, format) ==
    tiles_from_row(img, img_size, ts, pixel_size(format), 0)

\* ------------------------------------------------------ update_images
\* (data, img.texture_descriptor.size, img.texture_descriptor.format)
packed(img) ==
    [data |-> extract_tile_images(img.data,
                                  [x |-> img.width, y |-> img.height],
                                  sheet_tile_size, img.format),
     size |-> [width |-> img.width, height |-> img.height,
               depth_or_array_layers |-> 1],
     format |-> img.format]

\* faulty variant: the changed set is not consulted
image_updated_always(updated_images, image_handle) == TRUE

\* updated_images.contains(image_handle)
image_updated(updated_images, image_handle) == image_handle \in updated_images

\* the loop over tile_sets.iter().enumerate() from position idx (0-based)
RECURSIVE update_from(_, _, _)
update_from(td, idx, updated_images) ==
    IF idx >= Len(tile_sets) THEN td
    ELSE LET image_handle == tile_sets[idx + 1] IN
         IF /\ image_updated(updated_images, image_handle)
            /\ images[image_handle] # NoImage
         THEN IF idx < Len(td)
              THEN update_from([td EXCEPT ![idx + 1] = packed(images[image_handle])],
                               idx + 1, updated_images)
              ELSE update_from(Append(td, packed(images[image_handle])),
                               idx + 1, updated_images)
         ELSE update_from(td, idx + 1, updated_images)

UpdateImages(updated_images) ==
    /\ sheet_pc = "ready"
    /\ updates < MaxUpdates
    /\ updates' = updates + 1
    /\ tile_data' = update_from(tile_data, 0, updated_images)
    /\ sheet_last' = SheetLast("update_images", <<>>, updated_images, "none",
                               NoTexture)
    /\ UNCHANGED <<sheet_pc, tile_sets, sheet_tile_size, images, loads>>

\* The asset server finishes loading an image, or the host replaces one.
LoadImage(h, w, ht, format) ==
    /\ loads < MaxLoads
    /\ loads' = loads + 1
    /\ images' = [images EXCEPT ![h] = Image(h, w, ht, format)]
    /\ sheet_last' = SheetLast("load", <<h>>, {}, "none", NoTexture)
    /\ UNCHANGED <<sheet_pc, tile_sets, sheet_tile_size, tile_data, updates>>

\* ------------------------------------------------------ prepare_asset
fixed_idx == 0

\* (size.width * size.height * size.depth_or_array_layers)
\*    / (tile_size.x * tile_size.y)
array_count(sz) ==
    (sz.width * sz.height * sz.depth_or_array_layers)
       \div (sheet_tile_size.x * sheet_tile_size.y)

\* the TextureDescriptor and the data of create_texture_with_data
texture_of(entry) ==
    [width |-> sheet_tile_size.x, height |-> sheet_tile_size.y,
     depth_or_array_layers |-> array_count(entry.size),
     format |-> entry.format, data |-> entry.data]

\* the bytes the descriptor's layers take
texture_bytes(t) ==
    t.width * t.height * t.depth_or_array_layers * pixel_size(t.format)

\* The render device is outside the repository: it accepts a descriptor of
\* at least one layer whose data fills the layers; what it does with any
\* other request (a panic of the upload, or a texture) is its choice.
create_texture_outcomes(t) ==
    IF t.depth_or_array_layers >= 1 /\ Len(t.data) >= texture_bytes(t)
    THEN {"Ok"}
    ELSE {"Ok", "Panic"}

\* extract_asset (a clone of the sheet) followed by prepare_asset on it
PrepareAsset ==
    /\ sheet_pc = "ready"
    /\ IF fixed_idx >= Len(tile_data)
       THEN /\ sheet_last' = SheetLast("prepare", <<>>, {}, "RetryNextUpdate",
                                       NoTexture)
            /\ sheet_pc' = sheet_pc
       ELSE \E outcome \in create_texture_outcomes(texture_of(tile_data[fixed_idx + 1])) :
            /\ sheet_last' = SheetLast("prepare", <<>>, {}, outcome,
                                       texture_of(tile_data[fixed_idx + 1]))
            /\ sheet_pc' = IF outcome = "Panic" THEN "panicked" ELSE sheet_pc
    /\ UNCHANGED <<tile_sets, sheet_tile_size, tile_data, images, loads, updates>>

\* ------------------------------------------------------------ SpecSheet
RECURSIVE SeqsUpTo(_, _)
SeqsUpTo(S, n) ==
    IF n = 0 THEN {<<>>}
    ELSE SeqsUpTo(S, n - 1) \cup [1..n -> S]

\* the tile size handed to TileSheet::new
SheetTileSizes == {[x |-> 2, y |-> 2]}

SheetInit ==
    /\ MapIdle
    /\ SheetIdle
    /\ ExIdle
    /\ RenderIdle
    /\ PrepIdle
    /\ InterIdle
    /\ TickIdle
    /\ AsIdle
    /\ QueueIdle
    /\ RenderIdle

SheetNext ==
    \/ /\ \E input \in SeqsUpTo(Handles, MaxInputLen), ts \in SheetTileSizes :
             TileSheet_new(input, ts)
       /\ UNCHANGED <<mapVars, exVars, renderVars, prepVars, interVars, tickVars, asVars,
                      queueVars>>
    \/ /\ \E h \in Handles, w \in 1..MaxImgW, ht \in 1..MaxImgH,
             format \in Formats : LoadImage(h, w, ht, format)
       /\ UNCHANGED <<mapVars, exVars, renderVars, prepVars, interVars, tickVars, asVars,
                      queueVars>>
    \/ /\ \E updated_images \in SUBSET Handles : UpdateImages(updated_images)
       /\ UNCHANGED <<mapVars, exVars, renderVars, prepVars, interVars, tickVars, asVars,
                      queueVars>>
    \/ /\ PrepareAsset
       /\ UNCHANGED <<mapVars, exVars, renderVars, prepVars, interVars, tickVars, asVars,
                      queueVars>>

SpecSheet == SheetInit /\ [][SheetNext]_vars

\* ---------------------------------------------------------- SpecExtract
\* one call of extract_tile_images on each image and tile size tried
ExtractTileImages ==
    /\ ex_pc = "input"
    /\ ex_pc' = "done"
    /\ ex_dest' = extract_tile_images(ex_img.data,
                                      [x |-> ex_img.width, y |-> ex_img.height],
                                      ex_tile_size, ex_img.format)
    /\ UNCHANGED <<ex_img, ex_tile_size>>

ExtractInit ==
    /\ MapIdle
    /\ SheetIdle
    /\ RenderIdle
    /\ PrepIdle
    /\ InterIdle
    /\ TickIdle
    /\ AsIdle
    /\ QueueIdle
    /\ ex_pc = "input"
    /\ ex_img \in {Image(0, w, ht, format) :
                      w \in 1..MaxPackW, ht \in 1..MaxPackH, format \in Formats}
    /\ ex_tile_size \in {[x |-> tw, y |-> th] :
                            tw \in 1..MaxTileW, th \in 1..MaxTileH}
    /\ ex_dest = <<>>

ExtractNext ==
    /\ ExtractTileImages
    /\ UNCHANGED <<mapVars, sheetVars, renderVars, prepVars, interVars, tickVars, asVars,
                   queueVars>>

SpecExtract == ExtractInit /\ [][ExtractNext]_vars

\* =================================================================
\* Extraction (src/src/render/mod.rs)
\* =================================================================
\* The visibility system of the host turns a chunk's ComputedVisibility
\* off (a new chunk entity starts with it on).
Hide(e) ==
    /\ pc = "ready"
    /\ e \in DOMAIN chunk_data
    /\ e \notin hidden
    /\ Cardinality(hidden) < MaxHidden
    /\ hidden' = hidden \cup {e}
    /\ render_last' = "hide"
    /\ UNCHANGED extracted_chunks

\* chunks.iter(): the chunk entities in the order of their ids
RECURSIVE query_order(_)
query_order(E) ==
    IF E = {} THEN <<>>
    ELSE LET e == CHOOSE m \in E : \A o \in E : m <= o
         IN <<e>> \o query_order(E \ {e})

ExtractedChunk(idx, e) ==
    [index |-> idx,
     data |-> chunk_data[e].tiles,
     chunk_size |-> chunk_data[e].chunk_size,
     tile_size |-> chunk_data[e].tile_size,
     transform |-> chunk_transform[e]]

\* if !visibility.is_visible { continue; }
passes_visibility(e) == e \notin hidden

\* the loop over chunks.iter().enumerate() from position idx (0-based)
RECURSIVE extract_from(_, _, _)
extract_from(list, q, idx) ==
    IF idx >= Len(q) THEN list
    ELSE IF passes_visibility(q[idx + 1])
         THEN extract_from(Append(list, ExtractedChunk(idx, q[idx + 1])),
                           q, idx + 1)
         ELSE extract_from(list, q, idx + 1)

\* extracted_chunks.chunks.clear()
cleared(list) == <<>>

\* extract_chunks.  tile_sheets.get_mut(..) finds no TileSheet asset: none
\* is ever added in the runs of SpecRender, so the sheet is left alone.
ExtractChunks ==
    /\ pc = "ready"
    /\ extracted_chunks' =
          extract_from(cleared(extracted_chunks), query_order(DOMAIN chunk_data), 0)
    /\ render_last' = "extract_chunks"
    /\ UNCHANGED hidden

RenderInit ==
    /\ MapIdle
    /\ SheetIdle
    /\ ExIdle
    /\ RenderIdle
    /\ PrepIdle
    /\ InterIdle
    /\ TickIdle
    /\ AsIdle
    /\ QueueIdle

\* a game system writes, the reconciliation runs, the host hides chunks,
\* the extraction runs
RenderNext ==
    \/ /\ \E w \in 1..MaxW, h \in 1..MaxH, cw \in 0..MaxCS, ch \in 0..MaxCS,
             ts \in TileSizes : New(w, h, cw, ch, ts)
       /\ UNCHANGED <<sheetVars, exVars, renderVars, prepVars, interVars, tickVars, asVars,
                      queueVars>>
    \/ /\ \E c \in Coords, v \in Tiles : GetMut(c, v)
       /\ UNCHANGED <<sheetVars, exVars, renderVars, prepVars, interVars, tickVars, asVars,
                      queueVars>>
    \/ /\ Reconcile
       /\ UNCHANGED <<sheetVars, exVars, renderVars, prepVars, interVars, tickVars, asVars,
                      queueVars>>
    \/ /\ \E e \in DOMAIN chunk_data : Hide(e)
       /\ UNCHANGED <<mapVars, sheetVars, exVars, prepVars, interVars, tickVars, asVars,
                      queueVars>>
    \/ /\ ExtractChunks
       /\ UNCHANGED <<mapVars, sheetVars, exVars, prepVars, interVars, tickVars, asVars,
                      queueVars>>

SpecRender == RenderInit /\ [][RenderNext]_vars

\* =================================================================
\* prepare_tiles (src/src/render/mod.rs)
\* =================================================================
\* a.transform.translation.z.partial_cmp(&b.transform.translation.z), the
\* depths being numbers (no NaN): Equal falls back to a.index.cmp(&b.index)
depth_of(chunk) == chunk.transform.translation[3]

\* faulty variant: the depth is not compared
chunk_cmp_index_only(a, b) ==
    IF a.index < b.index THEN "Less"
    ELSE IF a.index > b.index THEN "Greater" ELSE "Equal"

chunk_cmp(a, b) ==
    IF depth_of(a) < depth_of(b) THEN "Less"
    ELSE IF depth_of(a) > depth_of(b) THEN "Greater"
    ELSE IF a.index < b.index THEN "Less"
    ELSE IF a.index > b.index THEN "Greater" ELSE "Equal"

\* Vec::sort_by(cmp): a stable sort, here by insertion from the back
RECURSIVE insert_by(_, _)
insert_by(x, list) ==
    IF list = <<>> THEN <<x>>
    ELSE IF chunk_cmp(x, Head(list)) # "Greater" THEN <<x>> \o list
         ELSE <<Head(list)>> \o insert_by(x, Tail(list))

RECURSIVE sort_by(_)
sort_by(list) ==
    IF list = <<>> THEN <<>> ELSE insert_by(Head(list), sort_by(Tail(list)))

\* the entry pushed for a cell: tile.idx as i32 for Some(tile), -1 for None
\* (a cell that was never copied or that holds the grid's default)
buffer_entry(cell) ==
    IF cell = NoneCell \/ cell = DefaultTile THEN -1 ELSE cell

\* for tile in &chunk.data { buffer.push(..) } on the chunk's buffer
fill_buffer(buffer, data) == buffer \o [i \in DOMAIN data |-> buffer_entry(data[i])]

\* faulty variant: the buffers keep the entries of the previous frame
clear_buffers_keeps(uniforms) == uniforms

\* for (_, buffer) in &mut tile_uniforms.0 { buffer.clear() }
clear_buffers(uniforms) == [i \in DOMAIN uniforms |-> <<>>]

\* the loop over the sorted chunks from position k (1-based): the buffer
\* of chunk.index is looked up, or inserted empty, and filled
RECURSIVE fill_from(_, _, _)
fill_from(uniforms, list, k) ==
    IF k > Len(list) THEN uniforms
    ELSE LET chunk == list[k]
             buffer == IF chunk.index \in DOMAIN uniforms
                       THEN uniforms[chunk.index] ELSE <<>>
             filled == fill_buffer(buffer, chunk.data)
         IN fill_from([i \in DOMAIN uniforms \cup {chunk.index} |->
                         IF i = chunk.index THEN filled ELSE uniforms[i]],
                      list, k + 1)

PrepareTiles ==
    /\ prep_pc = "extracted"
    /\ prep_pc' = "prepared"
    /\ extracted_chunks' = sort_by(extracted_chunks)
    /\ tile_uniforms' = fill_from(clear_buffers(tile_uniforms),
                                  sort_by(extracted_chunks), 1)
    /\ render_last' = "prepare_tiles"
    /\ UNCHANGED <<hidden, frames>>

\* The list extract_chunks leaves for a frame: some of the chunk entities
\* of the query, in query order, each with its query index, its snapshot
\* and its world transform.
FrameChunk(idx, z, data) ==
    [index |-> idx,
     data |-> data,
     chunk_size |-> [x |-> Len(data), y |-> 1],
     tile_size |-> [x |-> 2, y |-> 3],
     transform |-> from_translation(<<0, 0, z>>)]

FrameData == {<<NoneCell, 1>>, <<1, DefaultTile>>}

FrameList(S, zs, ds) ==
    LET q == query_order(S)
    IN [k \in 1..Len(q) |-> FrameChunk(q[k], zs[q[k]], ds[q[k]])]

FrameLists ==
    {FrameList(S, zs, ds) :
       S \in SUBSET (0..(MaxChunks - 1)),
       zs \in [0..(MaxChunks - 1) -> 0..MaxDepth],
       ds \in [0..(MaxChunks - 1) -> FrameData]}

\* extract_chunks of the next frame, seen from prepare_tiles
ExtractFrame(list) ==
    /\ prep_pc \in {"start", "prepared"}
    /\ frames < MaxFrames
    /\ frames' = frames + 1
    /\ prep_pc' = "extracted"
    /\ extracted_chunks' = list
    /\ render_last' = "extract_chunks"
    /\ UNCHANGED <<hidden, tile_uniforms>>

PrepareInit ==
    /\ MapIdle
    /\ SheetIdle
    /\ ExIdle
    /\ RenderIdle
    /\ PrepIdle
    /\ InterIdle
    /\ TickIdle
    /\ AsIdle
    /\ QueueIdle

PrepareNext ==
    \/ /\ \E list \in FrameLists : ExtractFrame(list)
       /\ UNCHANGED <<mapVars, sheetVars, exVars, interVars, tickVars, asVars,
                      queueVars>>
    \/ /\ PrepareTiles
       /\ UNCHANGED <<mapVars, sheetVars, exVars, interVars, tickVars, asVars,
                      queueVars>>

SpecPrepare == PrepareInit /\ [][PrepareNext]_vars

\* =================================================================
\* queue_interaction_events (src/src/interaction.rs)
\* =================================================================
\* The entity of the tile map (the Parent of its chunks) and an entity of
\* the intersection list that is no chunk.
MapEntity == "tile_map"
OtherEntity == 99

Selected(tile_map, coord) == <<"Some", tile_map, coord>>

Event(kind, sel) == [kind |-> kind, tile_map |-> sel[2], coord |-> sel[3]]

\* faulty variant: the tile coordinate is not reduced modulo chunk_size
chunk_tile_coord_no_mod(position, data) ==
    [x |-> position[1] \div data.tile_size.x,
     y |-> position[2] \div data.tile_size.y]

\* (position.truncate() / tile_size.as_vec2()).as_uvec2() % chunk_size, for
\* a position with non-negative whole coordinates
chunk_tile_coord(position, data) ==
    [x |-> (position[1] \div data.tile_size.x) % data.chunk_size.x,
     y |-> (position[2] \div data.tile_size.y) % data.chunk_size.y]

\* the index of chunk_data.tiles[..], 0-based
picked_index(position, data) ==
    chunk_tile_coord(position, data).y * data.chunk_size.x
      + chunk_tile_coord(position, data).x

\* (chunk_tile_coord + chunk_size * chunk_coord.truncate()).extend(chunk_coord.z)
picked_coord(position, data) ==
    Coord(chunk_tile_coord(position, data).x + data.chunk_size.x * data.chunk_coord.x,
          chunk_tile_coord(position, data).y + data.chunk_size.y * data.chunk_coord.y,
          data.chunk_coord.z)

\* faulty variant: no cell is skipped
cell_is_none_never(cell) == FALSE

\* the arm "Tile::None => continue": the cell holds no tile
cell_is_none(cell) == cell = NoneCell \/ cell = DefaultTile

\* the loop over the intersections from position k (1-based): the
\* selection it ends with, or <<"Panic">> when the tile index is out of
\* range
RECURSIVE pick_from(_, _)
pick_from(hits, k) ==
    IF k > Len(hits) THEN NoSelection
    ELSE LET entity == hits[k].entity
             position == hits[k].position
         IN IF entity \notin DOMAIN chunk_data THEN pick_from(hits, k + 1)
            ELSE LET data == chunk_data[entity] IN
                 IF picked_index(position, data) >= Len(data.tiles)
                 THEN PanicRet
                 ELSE IF cell_is_none(data.tiles[picked_index(position, data) + 1])
                      THEN pick_from(hits, k + 1)
                      ELSE Selected(MapEntity, picked_coord(position, data))

\* faulty variant: the remembered selection survives a tick without a hit
selected_after_miss_keeps(ls) == ls

\* *last_selected = None
selected_after_miss(ls) == NoSelection

\* the events of lines 78-107 for the pick new and the remembered ls
hover_events(new, ls) ==
    IF new # NoSelection
    THEN IF ls # NoSelection
         THEN IF new[2] = ls[2] /\ new[3] = ls[3]
              THEN <<Event("Hovering", new)>>
              ELSE <<Event("JustExited", ls), Event("JustEntered", new)>>
         ELSE <<Event("JustEntered", new)>>
    ELSE IF ls # NoSelection THEN <<Event("JustExited", ls)>> ELSE <<>>

\* faulty variant: the mouse button is not consulted
click_events_unpressed(ls, just_pressed) ==
    IF ls # NoSelection THEN <<Event("Clicked", ls)>> ELSE <<>>

\* the Clicked event of lines 109-113, for the updated last_selected
click_events(ls, just_pressed) ==
    IF ls # NoSelection /\ just_pressed THEN <<Event("Clicked", ls)>> ELSE <<>>

\* the selection the event stream has entered and not exited, after evs
RECURSIVE entered_after(_, _)
entered_after(open, evs) ==
    IF evs = <<>> THEN open
    ELSE IF Head(evs).kind = "JustEntered"
         THEN entered_after(Selected(Head(evs).tile_map, Head(evs).coord), Tail(evs))
         ELSE IF Head(evs).kind = "JustExited"
              THEN entered_after(NoSelection, Tail(evs))
              ELSE entered_after(open, Tail(evs))

TickIn(source, p, hits, just_pressed) ==
    [source |-> source, p |-> p, hits |-> hits, just_pressed |-> just_pressed]

\* one run of the system with the inputs in
QueueInteractionEvents(in) ==
    /\ pc = "ready"
    /\ tick_in' = in
    /\ IF in.source # "single"
       THEN \* ray_source.get_single() is Err: return
            /\ new_selected' = NoSelection
            /\ events' = <<>>
            /\ UNCHANGED <<last_selected, entered, pc>>
       ELSE LET new == pick_from(in.hits, 1) IN
            IF new = PanicRet
            THEN /\ pc' = "panicked"
                 /\ new_selected' = NoSelection
                 /\ events' = <<>>
                 /\ UNCHANGED <<last_selected, entered>>
            ELSE LET ls == IF new # NoSelection THEN new
                           ELSE selected_after_miss(last_selected)
                     evs == hover_events(new, last_selected)
                              \o click_events(ls, in.just_pressed)
                 IN /\ new_selected' = new
                    /\ last_selected' = ls
                    /\ events' = evs
                    /\ entered' = entered_after(entered, evs)
                    /\ pc' = pc
    /\ UNCHANGED <<build, size, chunk_size, tile_size, tiles, dirty_chunks,
                   chunk_entities, chunk_data, chunk_transform, steps, last>>

\* ------------------------------------------------------- SpecInteract
\* The world of a run: a 2x2 map of two layers whose chunks have all been
\* reconciled (every chunk has its record, the dirty set is empty).
InteractChunkSizes == {[x |-> 1, y |-> 1], [x |-> 2, y |-> 1], [x |-> 2, y |-> 2]}

AllChunks ==
    {Coord(x, y, z) : x \in 0..((size.x + chunk_size.x - 1) \div chunk_size.x - 1),
                      y \in 0..((size.y + chunk_size.y - 1) \div chunk_size.y - 1),
                      z \in 0..(size.z - 1)}

EntityOf(c) == Cardinality({d \in AllChunks : CoordKey(d) < CoordKey(c)})

ChunkOfEntity(e) == CHOOSE c \in AllChunks : EntityOf(c) = e

\* a tile with a kind whose pickable flag is false; the other tiles with a
\* kind have it true
NonPickableTile == 2

\* Tile.pickable
pickable(cell) ==
    cell # NoneCell /\ cell # DefaultTile /\ cell # NonPickableTile

\* the upper layer of the world: empty, or one tile in its last cell,
\* pickable or not
UpperLayers ==
    {[i \in 1..(size.x * size.y) |->
        IF i = size.x * size.y THEN v ELSE DefaultTile] :
       v \in Tiles \cup {NonPickableTile}}

InteractInit ==
    /\ pc = "ready"
    /\ build = "release"
    /\ size = Coord(MaxW, MaxH, MaxLayers)
    /\ chunk_size \in InteractChunkSizes
    /\ tile_size \in TileSizes
    /\ tiles \in {<<lower, upper>> : lower \in Layers, upper \in UpperLayers}
    /\ dirty_chunks = {}
    /\ chunk_entities = [c \in AllChunks |-> EntityOf(c)]
    /\ chunk_data = [e \in 0..(Cardinality(AllChunks) - 1) |->
                       ChunkData_new(ChunkOfEntity(e))]
    /\ chunk_transform = [e \in 0..(Cardinality(AllChunks) - 1) |->
                            from_translation(chunk_translation(ChunkOfEntity(e)))]
    /\ steps = 0
    /\ last = Last("reconcile", NoCoord, 0, NoRet, {}, {})
    /\ SheetIdle
    /\ ExIdle
    /\ RenderIdle
    /\ PrepIdle
    /\ InterIdle
    /\ TickIdle
    /\ AsIdle
    /\ QueueIdle

\* the points a ray is sent through: the last pixel of each tile of the
\* map's footprint
Points ==
    {<<x * tile_size.x + tile_size.x - 1, y * tile_size.y + tile_size.y - 1>> :
       x \in 0..(size.x - 1), y \in 0..(size.y - 1)}

\* the chunk entity of layer z whose footprint holds the point
EntityAt(point, z) ==
    chunk_entities[Coord(point[1] \div (chunk_size.x * tile_size.x),
                         point[2] \div (chunk_size.y * tile_size.y), z)]

\* what a ray through the point can hit: the chunk of each layer there,
\* and an entity that is no chunk
TargetsAt(point) == {EntityAt(point, z) : z \in 0..(size.z - 1)} \cup {OtherEntity}

\* the intersection lists of a ray through the point: up to MaxHits
\* targets, none twice, in any order
HitsAt(point) ==
    {[k \in DOMAIN es |-> [entity |-> es[k], position |-> point]] :
       es \in {q \in SeqsUpTo(TargetsAt(point), MaxHits) :
                  \A i, j \in DOMAIN q : i # j => q[i] # q[j]}}

InteractNext ==
    \/ /\ \E point \in Points : \E hits \in HitsAt(point) :
          \E just_pressed \in BOOLEAN :
             QueueInteractionEvents(TickIn("single", point, hits, just_pressed))
       /\ UNCHANGED <<sheetVars, exVars, renderVars, prepVars, tickVars, asVars,
                      queueVars>>
    \/ /\ \E just_pressed \in BOOLEAN :
             QueueInteractionEvents(TickIn("none", <<0, 0>>, <<>>, just_pressed))
       /\ UNCHANGED <<sheetVars, exVars, renderVars, prepVars, tickVars, asVars,
                      queueVars>>

SpecInteract == InteractInit /\ [][InteractNext]_vars

\* =================================================================
\* One tick of the host engine (src/src/lib.rs, TileMapPlugin::build)
\* =================================================================
\* generate_or_update_chunks is added with add_system: it runs in the
\* Update stage with no ordering against the systems of the game, which
\* the examples add the same way.  extract_chunks runs in the Extract
\* stage of the render application, after the Update stage.  tick_ran
\* holds the systems that have run in the current tick, tick_written the
\* coordinate a game system wrote through get_mut in the current tick.

\* a system of the game writes one cell through get_mut
GameSystem(c, v) ==
    /\ "game" \notin tick_ran
    /\ "extract" \notin tick_ran
    /\ GetMut(c, v)
    /\ tick_ran' = tick_ran \cup {"game"}
    /\ tick_written' = IF get_mut(c)[1] = "Some" THEN <<c>> ELSE <<>>

\* generate_or_update_chunks, once per tick
ReconcileSystem ==
    /\ "reconcile" \notin tick_ran
    /\ "extract" \notin tick_ran
    /\ Reconcile
    /\ tick_ran' = tick_ran \cup {"reconcile"}
    /\ UNCHANGED tick_written

\* extract_chunks, after the Update stage
ExtractStage ==
    /\ "reconcile" \in tick_ran
    /\ "extract" \notin tick_ran
    /\ ExtractChunks
    /\ tick_ran' = tick_ran \cup {"extract"}
    /\ UNCHANGED tick_written

\* the next tick begins
NextTick ==
    /\ "extract" \in tick_ran
    /\ tick_ran' = {}
    /\ tick_written' = <<>>

TickInit ==
    /\ MapIdle
    /\ SheetIdle
    /\ ExIdle
    /\ RenderIdle
    /\ PrepIdle
    /\ InterIdle
    /\ TickIdle
    /\ AsIdle
    /\ QueueIdle

TickNext ==
    \/ /\ \E w \in 1..MaxW, h \in 1..MaxH, cw \in 0..MaxCS, ch \in 0..MaxCS,
             ts \in TileSizes : New(w, h, cw, ch, ts)
       /\ UNCHANGED <<sheetVars, exVars, renderVars, prepVars, interVars, tickVars, asVars,
                      queueVars>>
    \/ /\ \E c \in Coords, v \in Tiles : GameSystem(c, v)
       /\ UNCHANGED <<sheetVars, exVars, renderVars, prepVars, interVars, asVars,
                      queueVars>>
    \/ /\ ReconcileSystem
       /\ UNCHANGED <<sheetVars, exVars, renderVars, prepVars, interVars, asVars,
                      queueVars>>
    \/ /\ ExtractStage
       /\ UNCHANGED <<mapVars, sheetVars, exVars, prepVars, interVars, asVars,
                      queueVars>>
    \/ /\ NextTick
       /\ UNCHANGED <<mapVars, sheetVars, exVars, renderVars, prepVars, interVars, asVars,
                      queueVars>>

SpecTick == TickInit /\ [][TickNext]_vars

\* =================================================================
\* The dirty marks of the API (src/src/tile_map.rs)
\* =================================================================
\* &mut self.tiles[coord.z as usize][index]: the indexing is checked, a
\* layer or an index out of range panics
get_mut_unchecked(c) ==
    LET idx == coord_to_tile_idx(c) IN
    IF c.z < Len(tiles) /\ idx < Len(tiles[c.z + 1])
    THEN SomeRet(c.z, idx) ELSE PanicRet

\* TileMap::get_mut_unchecked followed by a write through the reference
GetMutUnchecked(c, v) ==
    /\ pc = "ready"
    /\ steps < MaxSteps
    /\ steps' = steps + 1
    /\ tiles' = WriteThrough(tiles, get_mut_unchecked(c), v)
    /\ last' = Last("get_mut_unchecked", c, v, get_mut_unchecked(c), {}, {})
    /\ pc' = IF get_mut_unchecked(c) = PanicRet THEN "panicked" ELSE pc
    /\ UNCHANGED <<build, size, chunk_size, tile_size, dirty_chunks,
                   chunk_entities, chunk_data, chunk_transform>>

\* TileMap::mark_chunk_dirty
MarkChunkDirty(c) ==
    /\ pc = "ready"
    /\ steps < MaxSteps
    /\ steps' = steps + 1
    /\ dirty_chunks' = mark_chunk_dirty(dirty_chunks, c)
    /\ last' = Last("mark_chunk_dirty", c, 0, NoRet, {}, {})
    /\ UNCHANGED <<pc, build, size, chunk_size, tile_size, tiles,
                   chunk_entities, chunk_data, chunk_transform>>

\* TileMap::mark_all_chunks_dirty
MarkAllChunksDirty ==
    /\ pc = "ready"
    /\ steps < MaxSteps
    /\ steps' = steps + 1
    /\ dirty_chunks' = mark_all_chunks_dirty(dirty_chunks, size)
    /\ last' = Last("mark_all_chunks_dirty", NoCoord, 0, NoRet, {}, {})
    /\ UNCHANGED <<pc, build, size, chunk_size, tile_size, tiles,
                   chunk_entities, chunk_data, chunk_transform>>

DirtyInit ==
    /\ MapIdle
    /\ SheetIdle
    /\ ExIdle
    /\ RenderIdle
    /\ PrepIdle
    /\ InterIdle
    /\ TickIdle
    /\ AsIdle
    /\ QueueIdle

DirtyNext ==
    \/ /\ \E w \in 1..MaxW, h \in 1..MaxH, cw \in 0..MaxCS, ch \in 0..MaxCS,
             ts \in TileSizes : New(w, h, cw, ch, ts)
       /\ UNCHANGED <<sheetVars, exVars, renderVars, prepVars, interVars, tickVars, asVars,
                      queueVars>>
    \/ /\ \E c \in Coords, v \in Tiles : GetMut(c, v)
       /\ UNCHANGED <<sheetVars, exVars, renderVars, prepVars, interVars, tickVars, asVars,
                      queueVars>>
    \/ /\ \E c \in Coords, v \in Tiles : GetMutUnchecked(c, v)
       /\ UNCHANGED <<sheetVars, exVars, renderVars, prepVars, interVars, tickVars, asVars,
                      queueVars>>
    \/ /\ \E c \in Coords : MarkChunkDirty(c)
       /\ UNCHANGED <<sheetVars, exVars, renderVars, prepVars, interVars, tickVars, asVars,
                      queueVars>>
    \/ /\ MarkAllChunksDirty
       /\ UNCHANGED <<sheetVars, exVars, renderVars, prepVars, interVars, tickVars, asVars,
                      queueVars>>
    \/ /\ Reconcile
       /\ UNCHANGED <<sheetVars, exVars, renderVars, prepVars, interVars, tickVars, asVars,
                      queueVars>>

SpecDirty == DirtyInit /\ [][DirtyNext]_vars

\* =================================================================
\* sync_as_tiles (src/src/tile_map.rs)
\* =================================================================
\* An AsTiles component: the anchor coordinate, the tile kinds by offset
\* (a HashMap, here a function on the set of offsets) and the tile map.
AsTiles(coord, tls, tile_map_entity) ==
    [coord |-> coord, tiles |-> tls, tile_map_entity |-> tile_map_entity]

\* Tile { entity: Some(e), kind: Some(kind), pickable: true } as a cell
\* value: distinct from the default tile and from one entity and kind to
\* the next
tagged_tile(e, kind) == 10 * (e + 1) + kind

\* old_tiles.coord + *coord
coord_add(a, b) == Coord(a.x + b.x, a.y + b.y, a.z + b.z)

\* tile_map[coord] = value for every <<coord, value>> of cells, through
\* IndexMut: the chunk is marked dirty, then the cell is indexed, which
\* panics out of range.  The cells are taken in the order of their
\* coordinates; the HashMap's own order differs only in what has been
\* written when a panic ends the pass.
RECURSIVE write_cells(_, _)
write_cells(st, cells) ==
    IF cells = {} \/ ~st.ok THEN st
    ELSE LET w == CHOOSE m \in cells :
                     \A o \in cells : CoordKey(m[1]) <= CoordKey(o[1])
             r == index_mut(w[1])
         IN write_cells([st EXCEPT !.dirty = mark_chunk_dirty(st.dirty, w[1]),
                                   !.tiles = WriteThrough(st.tiles, r, w[2]),
                                   !.ok = (r # PanicRet)],
                        cells \ {w})

\* the cells of the footprint of the component a of the entity e, each
\* with Tile { entity: Some(e), kind: Some(*tile_kind), pickable: true }
tile_cells(e, a) ==
    {<<coord_add(a.coord, o), tagged_tile(e, a.tiles[o])>> : o \in DOMAIN a.tiles}

\* faulty variant: the cache is never taken to be up to date
is_synced_never(old_tiles, a) == FALSE

\* if old_tiles == as_tiles { continue; }
is_synced(old_tiles, a) == old_tiles = a

\* for (coord, ..) in &old_tiles.tiles { tile_map[..] = Tile::default(); }
erase_old(st, old_tiles) ==
    write_cells(st, {<<coord_add(old_tiles.coord, o), DefaultTile>> :
                       o \in DOMAIN old_tiles.tiles})

\* sync_cache with the component of e replaced or inserted
cache_with(cache, e, a) ==
    [d \in DOMAIN cache \cup {e} |-> IF d = e THEN a ELSE cache[d]]

\* the body of the loop for the entity e
sync_entity(st, e) ==
    LET a == as_tiles[e] IN
    IF ~st.ok THEN st
    ELSE IF a.tile_map_entity # MapEntity
    THEN st   \* warn!("TileMap entity for a AsTiles does not exist")
    ELSE IF e \in DOMAIN st.cache
    THEN IF is_synced(st.cache[e], a) THEN st
         ELSE LET erased == erase_old(st, st.cache[e]) IN
              IF ~erased.ok THEN erased
              ELSE write_cells([erased EXCEPT !.cache = cache_with(st.cache, e, a)],
                               tile_cells(e, a))
    ELSE write_cells([st EXCEPT !.cache = cache_with(st.cache, e, a)],
                     tile_cells(e, a))

\* the loop over as_tiles_query.iter() from position k (1-based)
RECURSIVE sync_from(_, _, _)
sync_from(st, q, k) ==
    IF k > Len(q) THEN st ELSE sync_from(sync_entity(st, q[k]), q, k + 1)

\* one pass of sync_as_tiles
SyncAsTiles ==
    /\ pc = "ready"
    /\ LET st == sync_from([tiles |-> tiles, dirty |-> dirty_chunks,
                            cache |-> sync_cache, ok |-> TRUE],
                           query_order(DOMAIN as_tiles), 1)
       IN /\ tiles' = st.tiles
          /\ dirty_chunks' = st.dirty
          /\ sync_cache' = st.cache
          /\ pc' = IF st.ok THEN pc ELSE "panicked"
          /\ last' = Last("sync_as_tiles", NoCoord, 0,
                          IF st.ok THEN NoRet ELSE PanicRet, {}, {})
    /\ UNCHANGED <<build, size, chunk_size, tile_size, chunk_entities,
                   chunk_data, chunk_transform, steps, as_tiles>>

\* a system of the game changes the AsTiles component of the entity e
SetAsTiles(e, a) ==
    /\ pc = "ready"
    /\ steps < MaxSteps
    /\ e \in DOMAIN as_tiles
    /\ as_tiles[e] # a
    /\ steps' = steps + 1
    /\ as_tiles' = [as_tiles EXCEPT ![e] = a]
    /\ last' = Last("set_as_tiles", a.coord, e, NoRet, {}, {})
    /\ UNCHANGED <<pc, build, size, chunk_size, tile_size, tiles, dirty_chunks,
                   chunk_entities, chunk_data, chunk_transform, sync_cache>>

\* ---------------------------------------------------------- SpecAsTiles
AsEntities == 0..(MaxAsEntities - 1)

\* the components an entity takes: a footprint anchored at a cell of the
\* map (entity 0 one cell of any kind or two cells side by side, the other
\* entities one cell of kind 1), and for entity 0 also a component whose
\* tile map does not exist
AsComponents(e) ==
    LET footprints ==
          IF e = 0
          THEN {[o \in {Coord(0, 0, 0)} |-> k] : k \in 1..MaxKind}
                 \cup {[o \in {Coord(0, 0, 0), Coord(1, 0, 0)} |-> 1]}
          ELSE {[o \in {Coord(0, 0, 0)} |-> 1]}
    IN {AsTiles(Coord(x, y, 0), f, MapEntity) :
          x \in 0..(size.x - 1), y \in 0..(size.y - 1), f \in footprints}
         \cup (IF e = 0
               THEN {AsTiles(Coord(0, 0, 0), [o \in {Coord(0, 0, 0)} |-> 1],
                             "no_tile_map")}
               ELSE {})

\* a one-layer map of MaxW x MaxH empty cells, nothing reconciled yet, and
\* every entity with a component that has not been synced
AsTilesInit ==
    /\ pc = "ready"
    /\ build = "release"
    /\ size = Coord(MaxW, MaxH, 1)
    /\ chunk_size = [x |-> 2, y |-> 1]
    /\ tile_size \in TileSizes
    /\ tiles = new_tiles(MaxW, MaxH)
    /\ dirty_chunks = {}
    /\ chunk_entities = <<>>
    /\ chunk_data = <<>>
    /\ chunk_transform = <<>>
    /\ steps = 0
    /\ last = [Last("new", Coord(MaxW, MaxH, 0), 0, NoRet, {}, {})
                  EXCEPT !.cs = [x |-> 2, y |-> 1]]
    /\ SheetIdle
    /\ ExIdle
    /\ RenderIdle
    /\ PrepIdle
    /\ InterIdle
    /\ TickIdle
    /\ as_tiles \in [AsEntities -> UNION {AsComponents(e) : e \in AsEntities}]
    /\ \A e \in AsEntities : as_tiles[e] \in AsComponents(e)
    /\ sync_cache = <<>>
    /\ QueueIdle

AsTilesNext ==
    \/ /\ \E e \in AsEntities : \E a \in AsComponents(e) : SetAsTiles(e, a)
       /\ UNCHANGED <<sheetVars, exVars, renderVars, prepVars, interVars, tickVars,
                      queueVars>>
    \/ /\ SyncAsTiles
       /\ UNCHANGED <<sheetVars, exVars, renderVars, prepVars, interVars, tickVars,
                      queueVars>>
    \/ /\ Reconcile
       /\ UNCHANGED <<sheetVars, exVars, renderVars, prepVars, interVars, tickVars,
                      asVars,
                      queueVars>>

SpecAsTiles == AsTilesInit /\ [][AsTilesNext]_vars

\* =================================================================
\* queue_chunks and DrawChunkCommand (src/src/render/mod.rs)
\* =================================================================
\* const INDICES: [u16; 6]
INDICES == <<0, 3, 1, 0, 2, 3>>

\* index + (4 * tile_idx) as u16: the product is a u32 (below 2^32 for
\* every chunk area below 2^30), the cast keeps its low 16 bits, and the
\* sum is a u16.  The cast yields a multiple of 4, so the sum with an index
\* of at most 3 stays below 2^16 in every build.
index_entry(idx, tile_idx) == (idx + ((4 * tile_idx) % 2^16)) % 2^16

\* the buffer pushed for a chunk size: for tile_idx in 0..x * y, for index
\* in INDICES
new_index_buffer(cs) ==
    [i \in 1..(6 * cs.x * cs.y) |->
       index_entry(INDICES[((i - 1) % 6) + 1], (i - 1) \div 6)]

\* what index_buffers keeps of the buffer pushed for a chunk size of at
\* least one tile: the number of pushes and the last six entries
buffer_record(cs) ==
    [len |-> 6 * cs.x * cs.y,
     tail |-> [j \in 1..6 |-> new_index_buffer(cs)[6 * cs.x * cs.y - 6 + j]]]

\* queue_chunks over the frame's extracted chunks, given by their chunk
\* sizes in order.  Without a view binding or a view nothing is built or
\* queued.  A chunk size without an index buffer gets one; every chunk,
\* its tile buffer being bound, is queued as an item of the phase.
QueueChunks(has_view, sizes) ==
    /\ frames < MaxFrames
    /\ frames' = frames + 1
    /\ index_buffers' =
         IF has_view
         THEN [cs \in DOMAIN index_buffers \cup {sizes[k] : k \in DOMAIN sizes} |->
                 IF cs \in DOMAIN index_buffers THEN index_buffers[cs]
                 ELSE buffer_record(cs)]
         ELSE index_buffers
    /\ phase_items' = IF has_view THEN sizes ELSE <<>>
    /\ drawn' = <<>>
    /\ UNCHANGED <<tile_uniforms, prep_pc>>

\* DrawChunkCommand::render for the k-th item of the phase: the index
\* buffer of the item's chunk size is bound as Uint16 and the range
\* 0 .. chunk_size.x * chunk_size.y * 6 is drawn
DrawChunk(k) ==
    /\ k \in DOMAIN phase_items
    /\ drawn' = [chunk_size |-> phase_items[k],
                 buffer_len |-> index_buffers[phase_items[k]].len,
                 index_count |-> phase_items[k].x * phase_items[k].y * 6]
    /\ UNCHANGED <<index_buffers, phase_items, prepVars>>

\* ------------------------------------------------------------ SpecQueue
\* chunk sizes of the frames: small ones, the largest area whose indices
\* fit 16 bits (4 * 16383 + 3 = 65535) and one above it
QueueChunkSizes ==
    {[x |-> 1, y |-> 1], [x |-> 2, y |-> 1], [x |-> 128, y |-> 128],
     [x |-> 128, y |-> 129]}

QueueInit ==
    /\ MapIdle
    /\ SheetIdle
    /\ ExIdle
    /\ RenderIdle
    /\ PrepIdle
    /\ InterIdle
    /\ TickIdle
    /\ AsIdle
    /\ QueueIdle

QueueNext ==
    \/ /\ \E has_view \in BOOLEAN :
            \E sizes \in SeqsUpTo(QueueChunkSizes, MaxQueued) : QueueChunks(has_view, sizes)
       /\ UNCHANGED <<mapVars, sheetVars, exVars, renderVars, interVars, tickVars,
                      asVars>>
    \/ /\ \E k \in 1..MaxQueued : DrawChunk(k)
       /\ UNCHANGED <<mapVars, sheetVars, exVars, renderVars, interVars, tickVars,
                      asVars>>

SpecQueue == QueueInit /\ [][QueueNext]_vars

\* =================================================================
\* Properties
\* =================================================================
InBounds(c) == c.x < size.x /\ c.y < size.y /\ c.z < size.z

OutOfPlane(c) == c.x >= size.x \/ c.y >= size.y

CeilDiv(a, b) == (a + b - 1) \div b

\* a TileMap value exists: new returned, and whatever panicked since was
\* not new itself
MapExists == pc = "ready" \/ (pc = "panicked" /\ last.op # "new")

AllDefault(layer) == \A i \in DOMAIN layer : layer[i] = DefaultTile

\* C1: for an in-bounds coordinate, get_mut and index_mut yield the cell at
\* row-major index y*width+x of layer z; after v is written through it, get
\* at the same coordinate returns v and the coordinate's chunk
\* (x div chunk_size.x, y div chunk_size.y, z) is in the dirty set.
C1_WriteReadBack ==
    (last.op \in {"get_mut", "index_mut"} /\ InBounds(last.coord)) =>
        /\ pc = "ready"
        /\ last.ret = <<"Some", last.coord.z,
                        last.coord.y * size.x + last.coord.x>>
        /\ get(last.coord) = last.ret
        /\ tiles[last.coord.z + 1][last.coord.y * size.x + last.coord.x + 1]
             = last.val
        /\ [x |-> last.coord.x \div chunk_size.x,
            y |-> last.coord.y \div chunk_size.y,
            z |-> last.coord.z] \in dirty_chunks

C1_Witness ==
    /\ last.op = "get_mut"
    /\ InBounds(last.coord)
    /\ last.coord.x >= 1 /\ last.coord.y >= 1
    /\ chunk_size.x = 2
    /\ last.val # DefaultTile
    /\ steps = 2

\* C2: chunks() enumerates, without duplicates, exactly
\* ceil(width/chunk_size.x) * ceil(height/chunk_size.y) * layers chunk
\* coordinates, so the chunk of every in-bounds cell is enumerated.
C2_ChunksCoverMap ==
    pc = "ready" =>
        LET cs == chunks(size) IN
        /\ Len(cs) = CeilDiv(size.x, chunk_size.x)
                       * CeilDiv(size.y, chunk_size.y) * size.z
        /\ \A i, j \in DOMAIN cs : i # j => cs[i] # cs[j]
        /\ \A x \in 0..(size.x - 1), y \in 0..(size.y - 1),
              z \in 0..(size.z - 1) :
              [x |-> x \div chunk_size.x, y |-> y \div chunk_size.y, z |-> z]
                 \in Range(cs)

\* C3: add_empty_layer increases size.z by exactly 1, returns the index of
\* the new layer (the previous layer count), appends a layer of
\* width*height empty cells, leaves the existing layers unchanged, and
\* afterwards the chunk of every cell of every layer is in the dirty set.
C3_AddEmptyLayer ==
    [][last'.op = "add_empty_layer" =>
         /\ size'.z = size.z + 1
         /\ size'.x = size.x /\ size'.y = size.y
         /\ last'.ret = <<"Val", size.z>>
         /\ Len(tiles') = Len(tiles) + 1
         /\ Len(tiles'[Len(tiles')]) = size.x * size.y
         /\ AllDefault(tiles'[Len(tiles')])
         /\ \A l \in DOMAIN tiles : tiles'[l] = tiles[l]
         /\ \A x \in 0..(size.x - 1), y \in 0..(size.y - 1), z \in 0..size.z :
               [x |-> x \div chunk_size.x, y |-> y \div chunk_size.y, z |-> z]
                  \in dirty_chunks']_vars

\* C4: no accessor wraps or clamps: for a coordinate with x >= width or
\* y >= height, get and get_mut return None and the index operators panic.
C4_NoWrap ==
    /\ (last.op \in {"get", "get_mut"} /\ OutOfPlane(last.coord))
          => last.ret = <<"None">>
    /\ (last.op \in {"index", "index_mut"} /\ OutOfPlane(last.coord))
          => (last.ret = <<"Panic">> /\ pc = "panicked")

C6_New ==
    last.op = "new" =>
        IF last.cs.x = 0 \/ last.cs.y = 0
        THEN pc = "panicked" /\ last.ret = <<"Panic">>
        ELSE /\ pc = "ready"
             /\ size = [x |-> last.coord.x, y |-> last.coord.y, z |-> 1]
             /\ chunk_size = last.cs
             /\ Len(tiles) = 1
             /\ Len(tiles[1]) = last.coord.x * last.coord.y
             /\ AllDefault(tiles[1])
             /\ dirty_chunks = {}

C6_Witness ==
    /\ last.op = "new"
    /\ last.cs.x >= 1 /\ last.cs.y = 0
    /\ pc = "panicked"

\* C7: after any sequence of new, get_mut, index writes, add_empty_layer and
\* add_layer (with width*height cells), the number of stored layers equals
\* size.z, size.z is at least 1 and never decreases, and every layer holds
\* exactly width*height cells.
C7_LayerShape ==
    [][MapExists' =>
         /\ Len(tiles') = size'.z
         /\ size'.z >= 1
         /\ \A l \in DOMAIN tiles' : Len(tiles'[l]) = size'.x * size'.y
         /\ (MapExists => size'.z >= size.z)]_vars

C7_Witness ==
    /\ last.op = "add_empty_layer"
    /\ size.z = 2
    /\ size.x # size.y

\* an empty snapshot cell: None, or a copied tile that is Tile::default()
IsEmptyCell(v) == v = NoneCell \/ v = DefaultTile

\* the snapshot of chunk c holds at local cell (lx, ly) the grid cell of the
\* chunk's layer when that is inside the map, else an empty cell
IsFootprintOf(snapshot, ts, c) ==
    /\ Len(snapshot) = chunk_size.x * chunk_size.y
    /\ \A lx \in 0..(chunk_size.x - 1), ly \in 0..(chunk_size.y - 1) :
          LET gx == c.x * chunk_size.x + lx
              gy == c.y * chunk_size.y + ly
              cell == snapshot[ly * chunk_size.x + lx + 1]
          IN IF gx < size.x /\ gy < size.y
             THEN cell = ts[c.z + 1][gy * size.x + gx + 1]
             ELSE IsEmptyCell(cell)

\* C8: ChunkData::new and ChunkData::sync produce a snapshot of exactly
\* chunk_size.x*chunk_size.y cells in which local cell (lx, ly) equals grid
\* cell (cx*chunk_size.x+lx, cy*chunk_size.y+ly) of the chunk's layer when
\* that cell is inside the map and is empty when it lies beyond the map's
\* right or top edge; no cell outside the footprint is read.
C8_SnapshotIsFootprint ==
    [][(last'.op = "reconcile" /\ pc' = "ready") =>
         \A c \in last'.created \cup last'.synced :
            IsFootprintOf(chunk_data'[chunk_entities'[c]].tiles, tiles', c)]_vars

\* C9: when generate_or_update_chunks runs on a non-empty dirty set D,
\* afterwards the dirty set is empty and exactly the coordinates of D were
\* processed: one with a record had it re-synced from the grid, one without
\* got a new record registered in the identity map, and no record of a
\* coordinate outside D was created or modified.
C9_ReconcileProcessesDirty ==
    [][(last'.op = "reconcile" /\ dirty_chunks # {}) =>
         /\ pc' = "ready"
         /\ dirty_chunks' = {}
         /\ last'.synced = dirty_chunks \cap DOMAIN chunk_entities
         /\ last'.created = dirty_chunks \ DOMAIN chunk_entities
         /\ DOMAIN chunk_entities' = DOMAIN chunk_entities \cup dirty_chunks
         /\ \A c \in dirty_chunks :
               /\ chunk_entities'[c] \in DOMAIN chunk_data'
               /\ chunk_data'[chunk_entities'[c]].chunk_coord = c
         /\ \A c \in DOMAIN chunk_entities :
               /\ chunk_entities'[c] = chunk_entities[c]
               /\ c \notin dirty_chunks =>
                     chunk_data'[chunk_entities'[c]]
                        = chunk_data[chunk_entities[c]]]_vars

\* C10: reconciliation is idempotent: a second generate_or_update_chunks
\* with no write or layer addition in between finds an empty dirty set and
\* creates, syncs or modifies no chunk record and no identity-map entry.
C10_ReconcileIdempotent ==
    [][(last.op = "reconcile" /\ pc = "ready" /\ last'.op = "reconcile") =>
         /\ dirty_chunks = {}
         /\ last'.created = {} /\ last'.synced = {}
         /\ UNCHANGED <<chunk_entities, chunk_data, dirty_chunks, tiles, pc>>]_vars

C10_Witness ==
    /\ last.op = "reconcile"
    /\ pc = "ready"
    /\ last.created = {} /\ last.synced = {}
    /\ dirty_chunks = {}
    /\ DOMAIN chunk_entities # {}
    /\ \E e \in DOMAIN chunk_data : \E i \in DOMAIN chunk_data[e].tiles :
          chunk_data[e].tiles[i] > DefaultTile

\* every identity-map entry refers to a record of the store
StoreConsistent ==
    \A c \in DOMAIN chunk_entities : chunk_entities[c] \in DOMAIN chunk_data

\* C11: when one in-bounds cell (x, y, z) has been written on an empty dirty
\* set (so the dirty set is exactly its chunk) and the records of the
\* identity map are all in the store (the other case is C12's),
\* reconciling creates or updates exactly one record, that of chunk
\* (x div chunk_size.x, y div chunk_size.y, z), and touches no other; a
\* newly created record of chunk (cx, cy, l) has translation
\* (cx*chunk_size.x*tile_size.x, cy*chunk_size.y*tile_size.y, l), no
\* rotation and unit scale.
C11_WriteThenReconcile ==
    [][(/\ last'.op = "reconcile"
        /\ last.op \in {"get_mut", "index_mut"}
        /\ InBounds(last.coord)
        /\ StoreConsistent
        /\ dirty_chunks = {[x |-> last.coord.x \div chunk_size.x,
                            y |-> last.coord.y \div chunk_size.y,
                            z |-> last.coord.z]}) =>
         LET cc == [x |-> last.coord.x \div chunk_size.x,
                    y |-> last.coord.y \div chunk_size.y,
                    z |-> last.coord.z]
         IN /\ pc' = "ready"
            /\ last'.created \cup last'.synced = {cc}
            /\ last'.created \cap last'.synced = {}
            /\ cc \in DOMAIN chunk_entities'
            /\ DOMAIN chunk_data' = DOMAIN chunk_data \cup {chunk_entities'[cc]}
            /\ chunk_data'[chunk_entities'[cc]].chunk_coord = cc
            /\ \A e \in DOMAIN chunk_data :
                  e # chunk_entities'[cc] =>
                     /\ chunk_data'[e] = chunk_data[e]
                     /\ chunk_transform'[e] = chunk_transform[e]
            /\ cc \in last'.created =>
                  /\ chunk_entities'[cc] \notin DOMAIN chunk_data
                  /\ chunk_transform'[chunk_entities'[cc]] =
                       [translation |->
                           <<cc.x * chunk_size.x * tile_size.x,
                             cc.y * chunk_size.y * tile_size.y, cc.z>>,
                        rotation |-> "IDENTITY",
                        scale |-> <<1, 1, 1>>]]_vars

C11_Witness ==
    /\ last.op = "reconcile"
    /\ pc = "ready"
    /\ steps = 1
    /\ last.created = {[x |-> 1, y |-> 1, z |-> 0]}
    /\ chunk_size = [x |-> 1, y |-> 1]
    /\ chunk_transform[chunk_entities[[x |-> 1, y |-> 1, z |-> 0]]].translation
         = <<2, 3, 0>>

\* C12: when the identity map holds an entry for a dirty chunk coordinate
\* whose record is not in the record store, generate_or_update_chunks
\* panics: the coordinate is not skipped and no replacement record or
\* entry is made for it.
C12_MissingRecordPanics ==
    [][(last'.op = "reconcile"
        /\ \E c \in dirty_chunks \cap DOMAIN chunk_entities :
              chunk_entities[c] \notin DOMAIN chunk_data) =>
         /\ pc' = "panicked"
         /\ last'.ret = <<"Panic">>
         /\ \A c \in dirty_chunks \cap DOMAIN chunk_entities :
               chunk_entities[c] \notin DOMAIN chunk_data =>
                  /\ chunk_entities'[c] = chunk_entities[c]
                  /\ chunk_entities[c] \notin DOMAIN chunk_data'
                  /\ c \notin last'.created \cup last'.synced
                  /\ \A e \in DOMAIN chunk_data' :
                        chunk_data'[e].chunk_coord # c]_vars

C12_Witness ==
    /\ last.op = "reconcile"
    /\ pc = "panicked"
    /\ last.coord \in DOMAIN chunk_entities
    /\ chunk_entities[last.coord] \notin DOMAIN chunk_data
    /\ DOMAIN chunk_data # {}

StrictlyAscending(s) == \A i \in 1..(Len(s) - 1) : s[i] < s[i + 1]

\* C13: TileSheet::new stores the handles strictly ascending (hence without
\* duplicates), exactly the distinct handles of its input; an input that
\* differs from it only in order or repetition gives the identical list.
C13_NewSortsAndDedups ==
    sheet_last.op = "new" =>
        /\ StrictlyAscending(tile_sets)
        /\ Range(tile_sets) = Range(sheet_last.input)
        /\ \A other \in SeqsUpTo(Handles, MaxInputLen) :
              Range(other) = Range(sheet_last.input) =>
                 new_tile_sets(other) = tile_sets

C13_Witness ==
    /\ sheet_last.op = "new"
    /\ sheet_last.input = <<1, 0, 1>>
    /\ tile_sets = <<0, 1>>

\* C14: an update_images call whose changed set holds no source of the
\* sheet that is in the image store leaves the packed tile data, with its
\* recorded sizes and formats, unchanged.
C14_UpdateWithoutChangeIsNoOp ==
    [][(/\ sheet_last'.op = "update_images"
        /\ \A h \in sheet_last'.updated :
              h \notin Range(tile_sets) \/ images[h] = NoImage) =>
         tile_data' = tile_data]_vars

C14_Witness ==
    /\ sheet_last.op = "update_images"
    /\ sheet_last.updated # {}
    /\ \A h \in sheet_last.updated :
          h \notin Range(tile_sets) \/ images[h] = NoImage
    /\ Len(tile_data) >= 1
    /\ images[tile_sets[1]] # NoImage
    /\ tile_data[1] # packed(images[tile_sets[1]])

\* C15: on a w x h image with tw x th tiles extract_tile_images emits
\* floor(w/tw)*floor(h/th) tiles in row-major tile order; row r of emitted
\* tile (tx, ty) is source row ty*th + (th-1-r), columns tx*tw to
\* (tx+1)*tw-1.
C15_ExtractLayout ==
    ex_pc = "done" =>
        LET w == ex_img.width
            tw == ex_tile_size.x
            th == ex_tile_size.y
            ps == pixel_size(ex_img.format)
            nx == w \div tw
            ny == ex_img.height \div th
        IN /\ Len(ex_dest) = nx * ny * tw * th * ps
           /\ \A ty \in 0..(ny - 1), tx \in 0..(nx - 1), r \in 0..(th - 1),
                 b \in 0..(tw * ps - 1) :
                 ex_dest[((ty * nx + tx) * th + r) * tw * ps + b + 1]
                   = ex_img.data[((ty * th + (th - 1 - r)) * w + tx * tw) * ps
                                   + b + 1]

\* the 32x16 image with 16x16 tiles, at one eighth: two tiles, the left
\* half then the right half, each with its two rows swapped
C15_Witness ==
    /\ ex_pc = "done"
    /\ ex_img.width = 4 /\ ex_img.height = 2 /\ ex_img.format = "R8Unorm"
    /\ ex_tile_size = [x |-> 2, y |-> 2]
    /\ ex_dest = << <<0, 4>>, <<0, 5>>, <<0, 0>>, <<0, 1>>,
                    <<0, 6>>, <<0, 7>>, <<0, 2>>, <<0, 3>> >>

\* C16: the packed data at position i comes from the i-th source of the
\* sorted source list: no byte of another source is stored in slot i, and
\* the slot's size and format are those of an image of source i.
C16_SlotHoldsItsSource ==
    \A i \in DOMAIN tile_data :
       \A k \in DOMAIN tile_data[i].data :
          tile_data[i].data[k][1] = tile_sets[i]

\* C17: the array-layer count prepare_asset puts into the texture
\* descriptor is the number of tiles in the uploaded buffer,
\* floor(w/tw)*floor(h/th) of the packed source.
C17_ArrayCountIsTileCount ==
    (sheet_last.op = "prepare" /\ sheet_last.result # "RetryNextUpdate") =>
        LET t == sheet_last.texture
            sz == tile_data[1].size
        IN /\ t.depth_or_array_layers
                = (sz.width \div sheet_tile_size.x)
                    * (sz.height \div sheet_tile_size.y)
           /\ t.depth_or_array_layers
                * (sheet_tile_size.x * sheet_tile_size.y * pixel_size(t.format))
                = Len(t.data)

RECURSIVE concat_data(_, _)
concat_data(td, i) ==
    IF i > Len(td) THEN <<>> ELSE td[i].data \o concat_data(td, i + 1)

\* C18: the buffer prepare_asset hands to the texture allocation is the
\* concatenation of the packed tiles of all sources in source order.
C18_AtlasConcatenatesSources ==
    (sheet_last.op = "prepare" /\ sheet_last.result # "RetryNextUpdate") =>
        sheet_last.texture.data = concat_data(tile_data, 1)

\* C19: prepare_asset answers RetryNextUpdate, the sheet unchanged, when
\* nothing has been packed, and succeeds once something has been packed;
\* packed data never goes away.
C19_RetryThenSucceed ==
    [][/\ sheet_last'.op = "prepare" =>
            /\ UNCHANGED <<tile_sets, sheet_tile_size, tile_data>>
            /\ IF tile_data = <<>>
               THEN sheet_last'.result = "RetryNextUpdate" /\ sheet_pc' = "ready"
               ELSE sheet_last'.result = "Ok" /\ sheet_pc' = "ready"
       /\ (tile_data # <<>> /\ sheet_pc = "ready") => tile_data' # <<>>]_vars

\* a chunk record with at least one non-empty cell
HasTile(e) == \E i \in DOMAIN chunk_data[e].tiles :
                 ~IsEmptyCell(chunk_data[e].tiles[i])

\* C20: the list extract_chunks leaves holds exactly the chunk records that
\* are visible and have at least one non-empty tile, each once, with the
\* record's current snapshot; nothing of the previous list stays.
C20_ExtractsVisibleNonEmpty ==
    [][render_last' = "extract_chunks" =>
         LET q == query_order(DOMAIN chunk_data)
             want == {i \in 1..Len(q) : q[i] \notin hidden /\ HasTile(q[i])}
         IN /\ {extracted_chunks'[k].index + 1 :
                   k \in DOMAIN extracted_chunks'} = want
            /\ Len(extracted_chunks') = Cardinality(want)
            /\ \A k \in DOMAIN extracted_chunks' :
                  extracted_chunks'[k].data
                    = chunk_data[q[extracted_chunks'[k].index + 1]].tiles]_vars

\* the chunks of a list as a bag: each chunk with the number of times it
\* occurs
Occurrences(list, c) == Cardinality({k \in DOMAIN list : list[k] = c})

IsPermutation(a, b) ==
    /\ Len(a) = Len(b)
    /\ \A k \in DOMAIN a : Occurrences(a, a[k]) = Occurrences(b, a[k])

RECURSIVE LegalStream(_, _)
LegalStream(open, evs) ==
    IF evs = <<>> THEN TRUE
    ELSE LET e == Head(evs) IN
         IF e.kind = "JustEntered"
         THEN open = NoSelection
              /\ LegalStream(Selected(e.tile_map, e.coord), Tail(evs))
         ELSE IF e.kind = "JustExited"
              THEN open = Selected(e.tile_map, e.coord)
                   /\ LegalStream(NoSelection, Tail(evs))
              ELSE LegalStream(open, Tail(evs))

\* C22: over the ticks of queue_interaction_events from no selection,
\* JustEntered and JustExited alternate beginning with JustEntered, every
\* JustExited names the tile of the latest JustEntered, and a tick in
\* which the hit moves from one tile to another sends JustExited(old)
\* before JustEntered(new).
C22_EnterExitAlternate ==
    [][/\ LegalStream(entered, events')
       /\ (/\ tick_in'.source = "single"
           /\ last_selected # NoSelection
           /\ new_selected' # NoSelection
           /\ new_selected' # last_selected)
          => /\ Len(events') >= 2
             /\ events'[1] = Event("JustExited", last_selected)
             /\ events'[2] = Event("JustEntered", new_selected')]_vars

C22_Witness ==
    /\ Len(events) >= 2
    /\ events[1].kind = "JustExited"
    /\ events[2].kind = "JustEntered"
    /\ events[1].coord # events[2].coord
    /\ entered = Selected(MapEntity, events[2].coord)

\* C23: with the map at the origin, the tile picked for a hit at the point
\* p on the chunk (cx, cy, l) is the tile floor(p / tile_size) of layer l:
\* it lies in that chunk, its local coordinate is below chunk_size, the
\* index into the snapshot is below chunk_size.x * chunk_size.y (the pick
\* never fails), and the hit is the first one of the list on a cell that
\* holds a tile.
C23_PickedTile ==
    /\ pc = "ready"
    /\ new_selected # NoSelection =>
         \E k \in DOMAIN tick_in.hits :
            LET h == tick_in.hits[k]
                g == new_selected[3]
            IN /\ h.entity \in DOMAIN chunk_data
               /\ LET c == chunk_data[h.entity].chunk_coord
                      lx == g.x - c.x * chunk_size.x
                      ly == g.y - c.y * chunk_size.y
                  IN /\ g.x = h.position[1] \div tile_size.x
                     /\ g.y = h.position[2] \div tile_size.y
                     /\ g.z = c.z
                     /\ lx \in 0..(chunk_size.x - 1)
                     /\ ly \in 0..(chunk_size.y - 1)
                     /\ ly * chunk_size.x + lx < chunk_size.x * chunk_size.y
                     /\ coord_to_chunk_coord(g) = c
                     /\ ~IsEmptyCell(tiles[g.z + 1][g.y * size.x + g.x + 1])
               /\ \A j \in 1..(k - 1) :
                     LET e == tick_in.hits[j].entity IN
                     e \in DOMAIN chunk_data =>
                        IsEmptyCell(tiles[chunk_data[e].chunk_coord.z + 1]
                                         [g.y * size.x + g.x + 1])

C23_Witness ==
    /\ new_selected = Selected(MapEntity, Coord(1, 1, 1))
    /\ chunk_size = [x |-> 2, y |-> 1]
    /\ Len(tick_in.hits) = 2
    /\ tick_in.hits[2].entity \in DOMAIN chunk_data

\* C24: a cell written through get_mut by a game system during a tick is
\* in the chunk snapshot extracted in that same tick.
C24_WriteExtractedSameTick ==
    ("extract" \in tick_ran /\ tick_written # <<>> /\ pc = "ready"
        /\ InBounds(tick_written[1]))
    => LET c == tick_written[1]
           cc == coord_to_chunk_coord(c)
           lx == c.x - cc.x * chunk_size.x
           ly == c.y - cc.y * chunk_size.y
       IN \E k \in DOMAIN extracted_chunks :
             /\ extracted_chunks[k].transform = from_translation(chunk_translation(cc))
             /\ extracted_chunks[k].data[ly * chunk_size.x + lx + 1]
                  = tiles[c.z + 1][c.y * size.x + c.x + 1]

\* C25: mark_chunk_dirty and mark_all_chunks_dirty are idempotent (the same
\* mark applied a second time changes nothing), remove no coordinate from
\* the dirty set, and change neither the cells nor the layer count.
C25_MarksIdempotent ==
    [][last'.op \in {"mark_chunk_dirty", "mark_all_chunks_dirty"} =>
         /\ dirty_chunks \subseteq dirty_chunks'
         /\ tiles' = tiles
         /\ size' = size
         /\ (last.op = last'.op /\ last.coord = last'.coord)
              => dirty_chunks' = dirty_chunks]_vars

C25_Witness ==
    /\ last.op = "mark_chunk_dirty"
    /\ steps = 2
    /\ dirty_chunks = {coord_to_chunk_coord(last.coord)}
    /\ last.coord.x >= 1
    /\ chunk_size.x = 2
    /\ AllDefault(tiles[1])

\* C26: get_mut_unchecked leaves the dirty set as it was, and a
\* reconciliation leaves the record of every chunk that is not dirty with
\* the snapshot it had: a write through get_mut_unchecked reaches the
\* record only after the caller has marked the chunk dirty.
C26_UncheckedNeedsMark ==
    [][/\ last'.op = "get_mut_unchecked" =>
            /\ dirty_chunks' = dirty_chunks
            /\ chunk_data' = chunk_data
       /\ last'.op = "reconcile" =>
            \A c \in DOMAIN chunk_entities :
               (c \notin dirty_chunks /\ chunk_entities[c] \in DOMAIN chunk_data)
               => /\ c \in DOMAIN chunk_entities'
                  /\ chunk_entities'[c] = chunk_entities[c]
                  /\ chunk_data'[chunk_entities[c]] = chunk_data[chunk_entities[c]]]_vars

\* a reconciliation that had nothing to do has left a record whose
\* snapshot is not the grid's footprint
C26_Witness ==
    /\ pc = "ready"
    /\ last.op = "reconcile"
    /\ last.created = {}
    /\ last.synced = {}
    /\ dirty_chunks = {}
    /\ \E c \in DOMAIN chunk_entities :
          /\ chunk_entities[c] \in DOMAIN chunk_data
          /\ chunk_data[chunk_entities[c]].tiles # ChunkData_new(c).tiles

\* C27: cache coherence: every chunk record of the store either has its
\* coordinate in the dirty set or holds a snapshot equal to its footprint
\* of the grid; right after a reconciliation the dirty set is empty, so
\* every record equals the grid.  Stated for the records of the chunks
\* whose footprint starts inside the map.
C27_CacheCoherent ==
    pc = "ready" =>
       \A c \in DOMAIN chunk_entities :
          (/\ chunk_entities[c] \in DOMAIN chunk_data
           /\ c.x * chunk_size.x < size.x
           /\ c.y * chunk_size.y < size.y
           /\ c.z < size.z)
          => \/ c \in dirty_chunks
             \/ IsFootprintOf(chunk_data[chunk_entities[c]].tiles, tiles, c)

\* C28: no tile is lost: after a reconciliation every non-empty cell of the
\* grid lies in a chunk that has a record whose snapshot holds the cell,
\* also when the map size is no multiple of the chunk size.  Stated for
\* the cells of a layer handed to add_layer, at the reconciliation that
\* follows the call, with every record of the identity map in the store.
C28_NoTileLost ==
    [][(/\ last.op = "add_layer"
        /\ last'.op = "reconcile"
        /\ pc' = "ready"
        /\ \A c \in DOMAIN chunk_entities' :
              chunk_entities'[c] \in DOMAIN chunk_data')
       => \A x \in 0..(size.x - 1), y \in 0..(size.y - 1) :
             LET z == size.z - 1
                 cell == tiles'[z + 1][y * size.x + x + 1]
                 cc == [x |-> x \div chunk_size.x, y |-> y \div chunk_size.y,
                        z |-> z]
                 lx == x - cc.x * chunk_size.x
                 ly == y - cc.y * chunk_size.y
             IN cell # DefaultTile =>
                  /\ cc \in DOMAIN chunk_entities'
                  /\ chunk_data'[chunk_entities'[cc]].tiles[ly * chunk_size.x + lx + 1]
                       = cell]_vars

\* C29: a get_mut that returns None leaves the tile map as it was, the
\* dirty set included, so the dirty set only ever holds chunk coordinates
\* of existing layers whose footprint starts inside the map.
C29_FailedGetMutChangesNothing ==
    [][(last'.op = "get_mut" /\ last'.ret = NoneRet) =>
         /\ tiles' = tiles
         /\ size' = size
         /\ dirty_chunks' = dirty_chunks
         /\ \A c \in dirty_chunks' :
               /\ c.z < size.z
               /\ c.x * chunk_size.x < size.x
               /\ c.y * chunk_size.y < size.y]_vars

\* a chunk coordinate that chunks() enumerates or that is the chunk of an
\* in-bounds cell
ValidChunk(c) ==
    \/ c \in Range(chunks(size))
    \/ \E x \in 0..(size.x - 1), y \in 0..(size.y - 1), z \in 0..(size.z - 1) :
          c = [x |-> x \div chunk_size.x, y |-> y \div chunk_size.y, z |-> z]

\* C30: for every chunk coordinate that chunks() enumerates or that get_mut
\* / IndexMut derives from an in-bounds coordinate, copy_tiles stays in
\* bounds: map_width - start_x does not underflow, every source range lies
\* in the layer's width*height cells and every destination range in the
\* chunk's chunk_size.x*chunk_size.y cells; a reconciliation of such
\* coordinates (their records, if any, being in the store) does not fail.
C30_CopyStaysInBounds ==
    [][(/\ last'.op = "reconcile"
        /\ \A c \in dirty_chunks :
              /\ ValidChunk(c)
              /\ c \in DOMAIN chunk_entities
                    => chunk_entities[c] \in DOMAIN chunk_data)
       => /\ pc' = "ready"
          /\ \A c \in dirty_chunks :
                LET start_x == c.x * chunk_size.x
                    w == IF size.x - start_x < chunk_size.x
                         THEN size.x - start_x ELSE chunk_size.x
                IN /\ start_x <= size.x
                   /\ copy_width(c, chunk_size, size) = w
                   /\ Len(tiles[c.z + 1]) = size.x * size.y
                   /\ \A y \in 0..(chunk_size.y - 1) :
                         c.y * chunk_size.y + y < size.y =>
                            /\ src_start(c, chunk_size, size, y) + w
                                 <= size.x * size.y
                            /\ dest_start(chunk_size, y) + w
                                 <= chunk_size.x * chunk_size.y]_vars

\* a reconciliation has created the record of a chunk that reaches over
\* the right edge of the map and holds a tile
C30_Witness ==
    /\ pc = "ready"
    /\ last.op = "reconcile"
    /\ \E c \in last.created :
          /\ c.x * chunk_size.x < size.x
          /\ (c.x + 1) * chunk_size.x > size.x
          /\ c.y * chunk_size.y < size.y
          /\ c.z < size.z
          /\ \E i \in DOMAIN chunk_data[chunk_entities[c]].tiles :
                chunk_data[chunk_entities[c]].tiles[i] > DefaultTile

\* C31: the identity map holds one record per chunk coordinate and distinct
\* coordinates have distinct records; a reconciliation removes and remaps
\* no entry, adds exactly the drained coordinates that had none (so the
\* number of entries is the number of distinct coordinates drained so
\* far and never decreases), keeps every record of the store, and a
\* record's chunk coordinate is that of its entry and never changes.
C31_IdentityMapGrows ==
    [][(/\ last'.op = "reconcile"
        /\ pc' = "ready"
        /\ \A c \in DOMAIN chunk_entities :
              /\ chunk_entities[c] \in DOMAIN chunk_data
              /\ chunk_data[chunk_entities[c]].chunk_coord = c
        /\ \A c, d \in DOMAIN chunk_entities :
              c # d => chunk_entities[c] # chunk_entities[d])
       => /\ DOMAIN chunk_entities' = DOMAIN chunk_entities \cup dirty_chunks
          /\ Cardinality(DOMAIN chunk_entities')
               = Cardinality(DOMAIN chunk_entities)
                   + Cardinality(dirty_chunks \ DOMAIN chunk_entities)
          /\ \A c \in DOMAIN chunk_entities :
                chunk_entities'[c] = chunk_entities[c]
          /\ \A c, d \in DOMAIN chunk_entities' :
                c # d => chunk_entities'[c] # chunk_entities'[d]
          /\ \A e \in DOMAIN chunk_data :
                /\ e \in DOMAIN chunk_data'
                /\ chunk_data'[e].chunk_coord = chunk_data[e].chunk_coord
          /\ \A c \in DOMAIN chunk_entities' :
                /\ chunk_entities'[c] \in DOMAIN chunk_data'
                /\ chunk_data'[chunk_entities'[c]].chunk_coord = c]_vars

\* a reconciliation has both synchronised a record and created others
C31_Witness ==
    /\ pc = "ready"
    /\ last.op = "reconcile"
    /\ last.synced # {}
    /\ last.created # {}
    /\ Cardinality(DOMAIN chunk_data) >= 3

\* the events of the given kind in a stream
EventsOfKind(evs, kind) == {k \in DOMAIN evs : evs[k].kind = kind}

\* C32: in a tick with a selected tile exactly one of JustEntered and
\* Hovering is emitted for it, Hovering if and only if the previous tick's
\* selection was the same map and coordinate; in a tick without a
\* selected tile neither is emitted.
C32_EnteredOrHovering ==
    [][IF new_selected' # NoSelection
       THEN /\ (Event("Hovering", new_selected') \in Range(events'))
                 <=> (new_selected = new_selected')
            /\ (Event("JustEntered", new_selected') \in Range(events'))
                 <=> (new_selected # new_selected')
            /\ Cardinality(EventsOfKind(events', "Hovering")
                             \cup EventsOfKind(events', "JustEntered")) = 1
       ELSE /\ EventsOfKind(events', "Hovering") = {}
            /\ EventsOfKind(events', "JustEntered") = {}]_vars

\* C33: Clicked is emitted in a tick if and only if the left button was
\* just pressed in that tick and the tick has a selected tile; it names
\* this tick's selection and is the last event of the tick.
C33_Clicked ==
    [][LET clicked == EventsOfKind(events', "Clicked") IN
       /\ (clicked # {}) <=>
             (tick_in'.just_pressed /\ new_selected' # NoSelection)
       /\ \A k \in clicked :
             /\ k = Len(events')
             /\ events'[k] = Event("Clicked", new_selected')]_vars

\* a tick in which the hit moved to another tile and the button was pressed
C33_Witness ==
    /\ Len(events) = 3
    /\ events[1].kind = "JustExited"
    /\ events[2].kind = "JustEntered"
    /\ events[3].kind = "Clicked"
    /\ events[3].coord = new_selected[3]
    /\ events[1].coord # events[3].coord

\* the k-th intersection of the tick lies on a chunk whose snapshot cell
\* under the point holds a tile
HitOnTile(k) ==
    LET h == tick_in.hits[k] IN
    /\ h.entity \in DOMAIN chunk_data
    /\ LET d == chunk_data[h.entity]
           lx == h.position[1] \div tile_size.x - d.chunk_coord.x * chunk_size.x
           ly == h.position[2] \div tile_size.y - d.chunk_coord.y * chunk_size.y
       IN ~IsEmptyCell(d.tiles[ly * chunk_size.x + lx + 1])

\* C34: the tile selected in a tick is the one under the first
\* intersection of the list whose chunk cell is not empty; intersections
\* on empty cells (and on entities that are no chunks) are skipped, and
\* when every intersected cell is empty nothing is selected.
C34_FirstNonEmptyHit ==
    tick_in.source = "single" =>
       LET on == {k \in DOMAIN tick_in.hits : HitOnTile(k)} IN
       IF on = {} THEN new_selected = NoSelection
       ELSE LET k == CHOOSE m \in on : \A o \in on : m <= o
                h == tick_in.hits[k]
            IN new_selected =
                 Selected(MapEntity,
                          Coord(h.position[1] \div tile_size.x,
                                h.position[2] \div tile_size.y,
                                chunk_data[h.entity].chunk_coord.z))

\* the ray met the upper layer on an empty cell first and the tile of the
\* lower layer was selected
C34_Witness ==
    /\ Len(tick_in.hits) = 2
    /\ tick_in.hits[1].entity \in DOMAIN chunk_data
    /\ chunk_data[tick_in.hits[1].entity].chunk_coord.z = 1
    /\ new_selected # NoSelection
    /\ new_selected[3].z = 0
    /\ new_selected[3].x = 1

\* C35: whenever a tick produces no selected tile while a selection is
\* remembered, also when no single ray-cast source is available,
\* JustExited for the remembered selection is emitted in that tick and
\* the remembered selection is cleared.
C35_ExitedWhenNothingSelected ==
    [][(new_selected' = NoSelection /\ last_selected # NoSelection) =>
          /\ Event("JustExited", last_selected) \in Range(events')
          /\ last_selected' = NoSelection]_vars

\* C36: no event names a tile whose pickable flag is false.
C36_OnlyPickableTiles ==
    \A k \in DOMAIN events :
       pickable(tiles[events[k].coord.z + 1]
                     [events[k].coord.y * size.x + events[k].coord.x + 1])

\* C37: after prepare_tiles the buffer of every extracted chunk holds
\* exactly chunk_size.x*chunk_size.y entries in the order of the snapshot,
\* the tile's atlas index for an occupied cell and -1 for an empty one;
\* the buffers were cleared first, so a buffer of no chunk of this frame
\* is empty and no entry of a previous frame or another chunk remains.
C37_BuffersHoldTheFrame ==
    [][render_last' = "prepare_tiles" =>
         /\ \A k \in DOMAIN extracted_chunks' :
               LET chunk == extracted_chunks'[k] IN
               /\ chunk.index \in DOMAIN tile_uniforms'
               /\ Len(tile_uniforms'[chunk.index])
                    = chunk.chunk_size.x * chunk.chunk_size.y
               /\ \A i \in DOMAIN chunk.data :
                     tile_uniforms'[chunk.index][i] =
                        IF IsEmptyCell(chunk.data[i]) THEN -1 ELSE chunk.data[i]
         /\ \A idx \in DOMAIN tile_uniforms' :
               (\A k \in DOMAIN extracted_chunks' :
                   extracted_chunks'[k].index # idx)
               => tile_uniforms'[idx] = <<>>]_vars

\* the second frame has been prepared: one buffer was refilled with other
\* entries than the first frame's are, another belongs to no chunk of the
\* frame
C37_Witness ==
    /\ render_last = "prepare_tiles"
    /\ frames = 2
    /\ Len(extracted_chunks) = 2
    /\ \E idx \in DOMAIN tile_uniforms : tile_uniforms[idx] = <<>>
    /\ \E idx \in DOMAIN tile_uniforms : tile_uniforms[idx] = <<-1, 1>>
    /\ \E idx \in DOMAIN tile_uniforms : tile_uniforms[idx] = <<1, -1>>

\* the cells of the footprint of the component a
FootprintCells(a) == {coord_add(a.coord, o) : o \in DOMAIN a.tiles}

\* the entity e is seen by a pass for the first time or with changed
\* content, and its tile map exists
NeedsSync(e) ==
    /\ as_tiles[e].tile_map_entity = MapEntity
    /\ e \notin DOMAIN sync_cache \/ sync_cache[e] # as_tiles[e]

\* C38: after a sync_as_tiles pass that sees an AsTiles entity for the
\* first time or with changed content, every cell of its footprint holds
\* the tile tagged with the entity, its kind and pickable = true, and the
\* chunks of those cells are dirty.  Stated for passes in which every
\* footprint, new or cached, lies inside the map and no two entities
\* claim the same cell, neither now nor when they were synced last.
C38_FootprintHoldsTheEntity ==
    [][(/\ last'.op = "sync_as_tiles"
        /\ pc' = "ready"
        /\ \A e \in DOMAIN as_tiles :
              /\ as_tiles[e].tile_map_entity = MapEntity
              /\ \A c \in FootprintCells(as_tiles[e]) : InBounds(c)
        /\ \A e \in DOMAIN sync_cache :
              \A c \in FootprintCells(sync_cache[e]) : InBounds(c)
        /\ \A e, d \in DOMAIN as_tiles :
              e # d => FootprintCells(as_tiles[e])
                         \cap FootprintCells(as_tiles[d]) = {}
        /\ \A e, d \in DOMAIN sync_cache :
              e # d => FootprintCells(sync_cache[e])
                         \cap FootprintCells(sync_cache[d]) = {})
       => \A e \in DOMAIN as_tiles :
             NeedsSync(e) =>
               \A o \in DOMAIN as_tiles[e].tiles :
                  LET c == coord_add(as_tiles[e].coord, o) IN
                  /\ tiles'[c.z + 1][coord_to_tile_idx(c) + 1]
                       = tagged_tile(e, as_tiles[e].tiles[o])
                  /\ coord_to_chunk_coord(c) \in dirty_chunks']_vars

\* every entity's component is what the cache holds for it
AllSynced ==
    \A e \in DOMAIN as_tiles :
       e \in DOMAIN sync_cache /\ sync_cache[e] = as_tiles[e]

\* C39: a sync_as_tiles pass over AsTiles entities whose coordinate, tile
\* set and tile map are what was synced last leaves the cells of the tile
\* map and its dirty set unchanged.
C39_UnchangedEntitiesDirtyNothing ==
    [][(last'.op = "sync_as_tiles" /\ AllSynced)
       => /\ tiles' = tiles
          /\ dirty_chunks' = dirty_chunks
          /\ sync_cache' = sync_cache]_vars

\* a pass has run over synced entities after the reconciliation drained
\* the dirty set: the footprints are in the grid and no chunk is dirty
C39_Witness ==
    /\ last.op = "sync_as_tiles"
    /\ pc = "ready"
    /\ AllSynced
    /\ dirty_chunks = {}
    /\ chunk_entities # <<>>
    /\ \E i \in DOMAIN tiles[1] : tiles[1][i] # DefaultTile

\* C40: for every chunk size, the shared index buffer built by
\* queue_chunks holds for each tile index t below chunk_size.x *
\* chunk_size.y the six values 4*t + {0, 3, 1, 0, 2, 3}, none truncated,
\* and the range that DrawChunkCommand draws is the buffer's length
\* chunk_size.x * chunk_size.y * 6.
C40_IndexBufferCoversChunk ==
    /\ \A cs \in DOMAIN index_buffers :
          LET buffer == new_index_buffer(cs) IN
          /\ index_buffers[cs].len = cs.x * cs.y * 6
          /\ \A j \in 1..6 :
                index_buffers[cs].tail[j] = 4 * (cs.x * cs.y - 1) + INDICES[j]
          /\ \A t \in 0..(cs.x * cs.y - 1) : \A j \in 1..6 :
                buffer[6 * t + j] = 4 * t + INDICES[j]
    /\ drawn # <<>> =>
          /\ drawn.index_count = drawn.chunk_size.x * drawn.chunk_size.y * 6
          /\ drawn.buffer_len = drawn.index_count

====
